---------------------------- MODULE Spec2Model ----------------------------
(***************************************************************************)
(* pktpy-hi: the ph_ wrapper layer over the pocketpy C API                 *)
(* (src/include/pktpy_hi.h).                                               *)
(*                                                                         *)
(* The interpreter state the wrapper drives is the operand stack, the      *)
(* register bank r0..r7, the volatile result cell py_retval(), the pending *)
(* exception cell and the global namespace.  Every wrapper function is a   *)
(* pure operator from an interpreter state (a record "vm") to the state it *)
(* leaves and the value it returns; every action is one host call.         *)
(*                                                                         *)
(* The py_* primitives are the interpreter's; they are modelled by their   *)
(* documented contract (pocketpy.h, spec section 6).                       *)
(***************************************************************************)
EXTENDS Integers, Sequences, FiniteSets, TLC

VARIABLES
    stack,      \* operand stack, bottom first; py_peek(0) is its depth
    regs,       \* register bank, py_getreg(0..7)
    retval,     \* the volatile result cell, py_retval()
    exc,        \* the pending exception cell
    globals,    \* __main__ namespace: name -> value (NilVal = not defined)
    scopes,     \* the host's open ph_Scope objects, innermost last
    closed,     \* the ph_Scope object just closed, while the host holds it
    inner,      \* per open guard: a guard nested in it cleared an error
    below,      \* per open guard: its region popped below the entry depth
    log,        \* interpreter primitives the last host call performed
    last,       \* the last host call: its inputs, what it returned
    values      \* the host's ph::Value objects, by the name of the C++ variable

vars == <<stack, regs, retval, exc, globals, scopes, closed, inner, below, log, last,
          values>>

---------------------------------------------------------------------------
(* Bounds of the model *)

MaxStack == 3       \* deepest stack the host builds with raw pushes
MaxScopes == 2      \* most guards open at once
MaxLeft == 1        \* most values a failed interpreter run leaves on the stack
MaxInt == 10        \* largest integer the host passes as an argument
MaxLive == 2        \* most registers the host keeps results in at once
MaxLen == 3         \* longest list the host iterates over

(* Program constant *)

PH_MAX_REG == 8

\* The register indices r0..r7
ValidRegs == 0..(PH_MAX_REG - 1)

---------------------------------------------------------------------------
(* Values, references, exceptions *)

NilVal == [tp |-> "nil", v |-> 0]
IntVal(n) == [tp |-> "int", v |-> n]
FloatVal(x) == [tp |-> "float", v |-> x]
StrVal(str) == [tp |-> "str", v |-> str]
BoolVal(b) == [tp |-> "bool", v |-> b]
FuncVal(id) == [tp |-> "function", v |-> id]
MethodVal(id) == [tp |-> "method", v |-> id]
ObjVal(n) == [tp |-> "Acc", v |-> n]

\* A stale slot above the stack pointer, exposed when the pointer is raised.
StaleVal == [tp |-> "stale", v |-> 0]

\* py_Ref: a pointer to a value cell
NULL == [k |-> "null", i |-> 0]
RegRef(i) == [k |-> "reg", i |-> i]
RetvalRef == [k |-> "retval", i |-> 0]
GlobalNames == <<"get_value", "double", "add_ten", "add", "sum3", "fail", "obj", "num",
                 "x", "y", "sum4">>
GlobalRef(i) == [k |-> "global", i |-> i]

NameIndex(name) ==
    IF \E i \in 1..Len(GlobalNames) : GlobalNames[i] = name
    THEN CHOOSE i \in 1..Len(GlobalNames) : GlobalNames[i] = name
    ELSE 0

NoExc == [tp |-> "none", msg |-> <<>>]
Exc(tp, msg) == [tp |-> tp, msg |-> msg]

\* No stack position (the NULL unwinding point)
NoPoint == -1

NoScope == [unwind_point |-> NoPoint, has_exception |-> FALSE]

\* The interpreter state as one record
VM == [stack |-> stack, regs |-> regs, retval |-> retval, exc |-> exc,
       globals |-> globals, log |-> <<>>]

Logged(vm, entry) == [vm EXCEPT !.log = Append(@, entry)]

---------------------------------------------------------------------------
(* Interpreter primitives *)

\* py_peek(0): the stack pointer, as a depth
py_peek0(vm) == Len(vm.stack)

py_push(vm, v) == [vm EXCEPT !.stack = Append(@, v)]

py_pop(vm) == [vm EXCEPT !.stack = SubSeq(@, 1, Len(@) - 1)]

py_shrink(vm, n) == [vm EXCEPT !.stack = SubSeq(@, 1, Len(@) - n)]

py_checkexc(vm) == vm.exc # NoExc

\* py_matchexc(type)
py_matchexc(vm, tp) == vm.exc.tp = tp

\* py_clearexc(p0): clear the pending exception; with an unwinding point,
\* set the stack pointer to it.
py_clearexc(vm, p0) ==
    [vm EXCEPT !.exc = NoExc,
               !.stack = IF p0 = NoPoint THEN @
                         ELSE IF p0 <= Len(@) THEN SubSeq(@, 1, p0)
                         ELSE @ \o [k \in 1..(p0 - Len(@)) |-> StaleVal]]

\* py_printexc(): write the pending exception to the output sink
py_printexc(vm) == Logged(vm, <<"py_printexc", vm.exc>>)

\* py_exception(type, fmt, ...): make an exception pending
py_exception(vm, tp, msg) == [vm EXCEPT !.exc = Exc(tp, msg)]

\* Read through a reference
Deref(vm, ref) ==
    CASE ref.k = "reg" -> vm.regs[ref.i]
      [] ref.k = "retval" -> vm.retval
      [] ref.k = "global" -> vm.globals[GlobalNames[ref.i]]
      [] OTHER -> NilVal

\* ref + k: the k-th cell after ref (registers are one contiguous array)
RefAdd(ref, k) == IF ref.k = "reg" THEN RegRef(ref.i + k) ELSE ref

py_getreg(i) == RegRef(i)
py_r0 == RegRef(0)

\* Store a value through an output reference.  A reference py_getreg(i)
\* with i outside the bank points past the register array: the store lands
\* in whatever memory is there.
Store(vm, out, v) ==
    CASE out.k = "reg" /\ out.i \in ValidRegs -> [vm EXCEPT !.regs[out.i] = v]
      [] out.k = "reg" /\ out.i \notin ValidRegs -> Logged(vm, <<"wild_write", out.i>>)
      [] out.k = "retval" -> [vm EXCEPT !.retval = v]
      [] OTHER -> vm

\* py_newint(out, val)
py_newint(vm, out, val) == Store(vm, out, IntVal(val))

\* py_newfloat(out, val)
py_newfloat(vm, out, val) == Store(vm, out, FloatVal(val))

\* py_newstr(out, val)
py_newstr(vm, out, val) == Store(vm, out, StrVal(val))

\* py_newbool(out, val)
py_newbool(vm, out, val) == Store(vm, out, BoolVal(val))

\* py_assign(dst, src)
py_assign(vm, dst, src) ==
    CASE dst.k = "reg" -> [vm EXCEPT !.regs[dst.i] = Deref(vm, src)]
      [] dst.k = "retval" -> [vm EXCEPT !.retval = Deref(vm, src)]
      [] OTHER -> vm

\* Values a failed run leaves above the stack pointer
Junk(n) == [k \in 1..n |-> StaleVal]

\* Scripts the host runs raw, by what running them does
Sources == {"x = 1 + 2", "1 / 0", "undefined_var"}

SourceOutcome(src) ==
    CASE src = "1 / 0" -> Exc("ZeroDivisionError", <<"division by zero">>)
      [] src = "undefined_var" -> Exc("NameError", <<"name is not defined", "undefined_var">>)
      [] OTHER -> NoExc

\* py_exec(source, ...): run a script; on an exception it is left pending,
\* with up to MaxLeft values left on the stack.
py_exec(vm, src, left) ==
    LET vm1 == Logged(vm, <<"py_exec", src>>)
    IN  IF SourceOutcome(src) = NoExc THEN vm1
        ELSE [vm1 EXCEPT !.exc = SourceOutcome(src), !.stack = @ \o Junk(left)]

\* Expressions the host evaluates, by their value
Expressions == {"1 + 2", "1 / 0", "undefined_var"}

\* py_eval(source, module): evaluate an expression into py_retval(); on an
\* exception it is left pending, with up to MaxLeft values left on the stack.
py_eval(vm, src, left) ==
    LET vm1 == Logged(vm, <<"py_eval", src>>)
    IN  IF SourceOutcome(src) = NoExc
        THEN [vm1 EXCEPT !.retval = IF src = "1 + 2" THEN IntVal(3) ELSE NilVal]
        ELSE [vm1 EXCEPT !.exc = SourceOutcome(src), !.stack = @ \o Junk(left)]

\* py_bool(val): 1 or 0, or -1 with an exception pending when the value's
\* __bool__ raises (`fails`)
py_bool(vm, val, fails) ==
    IF fails THEN [vm |-> py_exception(vm, "TypeError", <<"__bool__ raised">>), r |-> -1]
    ELSE [vm |-> vm,
          r |-> IF val \in {NilVal, IntVal(0), BoolVal(FALSE), StrVal("")} THEN 0 ELSE 1]

\* py_repr(val): the repr string in py_retval() and true, or false with an
\* exception pending when the value's __repr__ raises (`fails`), with up to
\* MaxLeft values left on the stack
py_repr(vm, val, fails, left) ==
    IF fails
    THEN [vm |-> [py_exception(vm, "TypeError", <<"__repr__ raised">>)
                    EXCEPT !.stack = @ \o Junk(left)],
          ok |-> FALSE]
    ELSE [vm |-> [vm EXCEPT !.retval = StrVal(<<"repr", val>>)], ok |-> TRUE]

\* py_tostr(ref): the C string of a str value
py_tostr(vm, ref) == Deref(vm, ref).v

---------------------------------------------------------------------------
(* The script-level environment: the functions and the class the host's    *)
(* set-up script defines, by what calling them does.                       *)
(*   def get_value(): return 42       def add(a, b): return a + b          *)
(*   def double(x): return x * 2      def sum3(a, b, c): return a + b + c  *)
(*   def add_ten(x): return x + 10    def fail(): raise ValueError('oops') *)
(*   def sum4(a, b, c, d): return a + b + c + d                           *)
(*   class Acc: get(self), add(self, x), fail(self);  obj = Acc(5); num = 5 *)

Returned(v) == [ok |-> TRUE, ret |-> v, exc |-> NoExc]
Raised(tp, msg) == [ok |-> FALSE, ret |-> NilVal, exc |-> Exc(tp, msg)]

AllInts(args) == \A k \in 1..Len(args) : args[k].tp = "int"

FuncArity(id) ==
    CASE id = 1 -> 0 [] id = 2 -> 1 [] id = 3 -> 1
      [] id = 4 -> 2 [] id = 5 -> 3 [] id = 7 -> 4 [] OTHER -> 0

CallFunction(id, args) ==
    IF Len(args) # FuncArity(id)
    THEN Raised("TypeError", <<"wrong number of arguments">>)
    ELSE IF ~AllInts(args)
    THEN Raised("TypeError", <<"unsupported operand type">>)
    ELSE CASE id = 1 -> Returned(IntVal(42))
           [] id = 2 -> Returned(IntVal(args[1].v * 2))
           [] id = 3 -> Returned(IntVal(args[1].v + 10))
           [] id = 4 -> Returned(IntVal(args[1].v + args[2].v))
           [] id = 5 -> Returned(IntVal(args[1].v + args[2].v + args[3].v))
           [] id = 7 -> Returned(IntVal(args[1].v + args[2].v + args[3].v
                                        + args[4].v))
           [] OTHER -> Raised("ValueError", <<"oops">>)

MethodNames == <<"get", "add", "fail">>

MethodId(tp, name) ==
    IF tp = "Acc" /\ \E i \in 1..Len(MethodNames) : MethodNames[i] = name
    THEN CHOOSE i \in 1..Len(MethodNames) : MethodNames[i] = name
    ELSE 0

MethodArity(id) == IF id = 2 THEN 1 ELSE 0

CallMethod(id, self, args) ==
    IF Len(args) # MethodArity(id)
    THEN Raised("TypeError", <<"wrong number of arguments">>)
    ELSE IF ~AllInts(args)
    THEN Raised("TypeError", <<"unsupported operand type">>)
    ELSE CASE id = 1 -> Returned(IntVal(self.v))
           [] id = 2 -> Returned(IntVal(self.v + args[1].v))
           [] OTHER -> Raised("ValueError", <<"oops">>)

\* What calling `callable` on (self, args) does; a callee that runs is logged.
Invoke(callable, self, args) ==
    CASE callable.tp = "function" -> CallFunction(callable.v, args)
      [] callable.tp = "method" -> CallMethod(callable.v, self, args)
      [] OTHER -> Raised("TypeError", <<"object is not callable">>)

IsCallable(v) == v.tp \in {"function", "method"}

DefinedGlobals ==
    [n \in {GlobalNames[i] : i \in 1..Len(GlobalNames)} |->
        CASE n = "get_value" -> FuncVal(1)
          [] n = "double" -> FuncVal(2)
          [] n = "add_ten" -> FuncVal(3)
          [] n = "add" -> FuncVal(4)
          [] n = "sum3" -> FuncVal(5)
          [] n = "fail" -> FuncVal(6)
          [] n = "sum4" -> FuncVal(7)
          [] n = "obj" -> ObjVal(5)
          [] n \in {"x", "y"} -> NilVal
          [] OTHER -> IntVal(5)]

\* py_getglobal(py_name(name)): the item, or NULL when the name is not defined
py_getglobal(vm, name) ==
    [vm |-> Logged(vm, <<"py_getglobal", name>>),
     ref |-> IF NameIndex(name) = 0 THEN NULL
             ELSE IF vm.globals[name] = NilVal THEN NULL
             ELSE GlobalRef(NameIndex(name))]

\* py_setglobal(py_name(name), val): bind the name to the object val refers
\* to when the call is made
py_setglobal(vm, name, val) == [vm EXCEPT !.globals[name] = Deref(vm, val)]

\* py_pushmethod(name): with the receiver on top, replace it by
\* [method, self] and return true; return false and leave it when the
\* receiver has no such method.
py_pushmethod(vm, name) ==
    LET n == Len(vm.stack)
        self == vm.stack[n]
        id == MethodId(self.tp, name)
        vm1 == Logged(vm, <<"py_pushmethod", name>>)
    IN  IF id = 0 THEN [vm |-> vm1, ok |-> FALSE]
        ELSE [vm |-> [vm1 EXCEPT !.stack = SubSeq(@, 1, n - 1) \o <<MethodVal(id), self>>],
              ok |-> TRUE]

\* py_vectorcall(argc, 0): call [callable, self, args...] from the top of the
\* stack.  On success they are popped and the result is in py_retval(); on an
\* exception it is pending and up to `left` values are left above them.
py_vectorcall(vm, argc, left) ==
    LET n == Len(vm.stack)
        callable == vm.stack[n - argc - 1]
        self == vm.stack[n - argc]
        args == SubSeq(vm.stack, n - argc + 1, n)
        base == SubSeq(vm.stack, 1, n - argc - 2)
        out == Invoke(callable, self, args)
        vm1 == IF IsCallable(callable)
               THEN Logged(vm, <<"invoke", callable, self, args>>) ELSE vm
    IN  IF out.ok
        THEN [vm |-> [vm1 EXCEPT !.stack = base, !.retval = out.ret], ok |-> TRUE]
        ELSE [vm |-> [vm1 EXCEPT !.stack = base \o Junk(left), !.exc = out.exc],
              ok |-> FALSE]

RECURSIVE PushArgs(_, _, _, _)
PushArgs(vm, argv, k, argc) ==
    IF k >= argc THEN vm
    ELSE PushArgs(py_push(vm, Deref(vm, RefAdd(argv, k))), argv, k + 1, argc)

\* py_call(f, argc, argv): push f, nil and argv[0..argc-1]; vectorcall
py_call(vm, f, argc, argv, left) ==
    LET vm1 == Logged(vm, <<"py_call", f, argc, argv>>)
        vm2 == py_push(py_push(vm1, Deref(vm1, f)), NilVal)
    IN  py_vectorcall(PushArgs(vm2, argv, 0, argc), argc, left)

py_retval == RetvalRef

---------------------------------------------------------------------------
(* 0. Constants and internal helpers *)

ph__check_reg_offbyone(reg) == reg >= 0 /\ reg <= PH_MAX_REG

ph__check_reg(reg) == reg >= 0 /\ reg < PH_MAX_REG

---------------------------------------------------------------------------
(* 1. Scope management.  Each close returns the state it leaves, the       *)
(* scope object as it leaves it, and its return value.                     *)

ph_scope_begin(vm) == [unwind_point |-> py_peek0(vm), has_exception |-> FALSE]

ph_scope_end_keepstack(vm, scope) ==
    IF py_checkexc(vm)
    THEN [vm |-> py_clearexc(vm, scope.unwind_point),
          scope |-> [scope EXCEPT !.has_exception = TRUE], ret |-> FALSE]
    ELSE [vm |-> vm, scope |-> scope, ret |-> TRUE]

\* Variant of ph_scope_end that reports the failure but leaves the error pending
ph_scope_end_keeps_error(vm, scope) ==
    IF py_checkexc(vm)
    THEN [vm |-> vm, scope |-> [scope EXCEPT !.has_exception = TRUE], ret |-> FALSE]
    ELSE LET depth == py_peek0(vm) - scope.unwind_point
         IN  [vm |-> IF depth > 0 THEN py_shrink(vm, depth) ELSE vm,
              scope |-> scope, ret |-> TRUE]

\* Variant of ph_scope_end that unwinds the whole stack on success
ph_scope_end_drops_all(vm, scope) ==
    IF py_checkexc(vm)
    THEN [vm |-> py_clearexc(vm, scope.unwind_point),
          scope |-> [scope EXCEPT !.has_exception = TRUE], ret |-> FALSE]
    ELSE [vm |-> py_shrink(vm, py_peek0(vm)), scope |-> scope, ret |-> TRUE]

ph_scope_end(vm, scope) ==
    IF py_checkexc(vm)
    THEN [vm |-> py_clearexc(vm, scope.unwind_point),
          scope |-> [scope EXCEPT !.has_exception = TRUE], ret |-> FALSE]
    ELSE LET depth == py_peek0(vm) - scope.unwind_point
         IN  [vm |-> IF depth > 0 THEN py_shrink(vm, depth) ELSE vm,
              scope |-> scope, ret |-> TRUE]

ph_scope_end_print_nounwind(vm, scope) ==
    IF py_checkexc(vm)
    THEN [vm |-> py_clearexc(py_printexc(vm), NoPoint),
          scope |-> [scope EXCEPT !.has_exception = TRUE], ret |-> FALSE]
    ELSE LET depth == py_peek0(vm) - scope.unwind_point
         IN  [vm |-> IF depth > 0 THEN py_shrink(vm, depth) ELSE vm,
              scope |-> scope, ret |-> TRUE]

\* Variant of ph_scope_end_print that prints after it has cleared the error
ph_scope_end_print_late(vm, scope) ==
    IF py_checkexc(vm)
    THEN [vm |-> py_printexc(py_clearexc(vm, scope.unwind_point)),
          scope |-> [scope EXCEPT !.has_exception = TRUE], ret |-> FALSE]
    ELSE LET depth == py_peek0(vm) - scope.unwind_point
         IN  [vm |-> IF depth > 0 THEN py_shrink(vm, depth) ELSE vm,
              scope |-> scope, ret |-> TRUE]

ph_scope_end_print(vm, scope) ==
    IF py_checkexc(vm)
    THEN [vm |-> py_clearexc(py_printexc(vm), scope.unwind_point),
          scope |-> [scope EXCEPT !.has_exception = TRUE], ret |-> FALSE]
    ELSE LET depth == py_peek0(vm) - scope.unwind_point
         IN  [vm |-> IF depth > 0 THEN py_shrink(vm, depth) ELSE vm,
              scope |-> scope, ret |-> TRUE]

ph_scope_end_raise_shortshrink(vm, scope) ==
    LET depth == py_peek0(vm) - scope.unwind_point
        vm1 == IF depth > 1 THEN py_shrink(vm, depth - 1) ELSE vm
    IN  IF py_checkexc(vm1)
        THEN [vm |-> vm1, scope |-> [scope EXCEPT !.has_exception = TRUE], ret |-> FALSE]
        ELSE [vm |-> vm1, scope |-> scope, ret |-> TRUE]

ph_scope_end_raise_clearing(vm, scope) ==
    LET depth == py_peek0(vm) - scope.unwind_point
        vm1 == IF depth > 0 THEN py_shrink(vm, depth) ELSE vm
    IN  IF py_checkexc(vm1)
        THEN [vm |-> py_clearexc(vm1, NoPoint),
              scope |-> [scope EXCEPT !.has_exception = TRUE], ret |-> FALSE]
        ELSE [vm |-> vm1, scope |-> scope, ret |-> TRUE]

\* Variant of ph_scope_end_raise that does nothing on a guard already marked failed
ph_scope_end_raise_latched(vm, scope) ==
    IF scope.has_exception THEN [vm |-> vm, scope |-> scope, ret |-> FALSE]
    ELSE
    LET depth == py_peek0(vm) - scope.unwind_point
        vm1 == IF depth > 0 THEN py_shrink(vm, depth) ELSE vm
    IN  IF py_checkexc(vm1)
        THEN [vm |-> vm1, scope |-> [scope EXCEPT !.has_exception = TRUE], ret |-> FALSE]
        ELSE [vm |-> vm1, scope |-> scope, ret |-> TRUE]

\* Variant of ph_scope_end_raise that does not record the failure in the guard
ph_scope_end_raise_unmarked(vm, scope) ==
    LET depth == py_peek0(vm) - scope.unwind_point
        vm1 == IF depth > 0 THEN py_shrink(vm, depth) ELSE vm
    IN  [vm |-> vm1, scope |-> scope, ret |-> ~py_checkexc(vm1)]

ph_scope_end_raise(vm, scope) ==
    LET depth == py_peek0(vm) - scope.unwind_point
        vm1 == IF depth > 0 THEN py_shrink(vm, depth) ELSE vm
    IN  IF py_checkexc(vm1)
        THEN [vm |-> vm1, scope |-> [scope EXCEPT !.has_exception = TRUE], ret |-> FALSE]
        ELSE [vm |-> vm1, scope |-> scope, ret |-> TRUE]

ph_scope_failed(scope) == scope.has_exception

\* The close variant a policy names
Policies == {"silent", "print", "raise"}

ScopeEnd(policy, vm, scope) ==
    CASE policy = "silent" -> ph_scope_end(vm, scope)
      [] policy = "print" -> ph_scope_end_print(vm, scope)
      [] policy = "raise" -> ph_scope_end_raise(vm, scope)

---------------------------------------------------------------------------
(* 2. Safe execution helpers.  Each returns the state it leaves and its    *)
(* return value.  `left` is how many values the interpreter leaves on the  *)
(* stack if the script raises.                                             *)

\* Variant of ph_exec that closes its guard with the propagating close
ph_exec_propagating(vm, source, left) ==
    LET scope == ph_scope_begin(vm)
        e == ph_scope_end_raise(py_exec(vm, source, left), scope)
    IN  [vm |-> e.vm, ret |-> e.ret]

ph_exec(vm, source, left) ==
    LET scope == ph_scope_begin(vm)
        e == ph_scope_end_print(py_exec(vm, source, left), scope)
    IN  [vm |-> e.vm, ret |-> e.ret]

\* The module argument selects the namespace the script runs in
ph_exec_in(vm, source, module, left) ==
    LET scope == ph_scope_begin(vm)
        e == ph_scope_end_print(py_exec(vm, source, left), scope)
    IN  [vm |-> e.vm, ret |-> e.ret]

ph_eval(vm, source, left) ==
    LET scope == ph_scope_begin(vm)
        e == ph_scope_end_print(py_eval(vm, source, left), scope)
    IN  [vm |-> e.vm, ret |-> e.ret]

ph_eval_in(vm, source, module, left) ==
    LET scope == ph_scope_begin(vm)
        e == ph_scope_end_print(py_eval(vm, source, left), scope)
    IN  [vm |-> e.vm, ret |-> e.ret]

ph_exec_raise(vm, source, left) ==
    LET scope == ph_scope_begin(vm)
        e == ph_scope_end_raise(py_exec(vm, source, left), scope)
    IN  [vm |-> e.vm, ret |-> e.ret]

ph_exec_in_raise(vm, source, module, left) ==
    LET scope == ph_scope_begin(vm)
        e == ph_scope_end_raise(py_exec(vm, source, left), scope)
    IN  [vm |-> e.vm, ret |-> e.ret]

\* Variant of ph_eval_raise that closes its guard with the printing close
ph_eval_raise_clearing(vm, source, left) ==
    LET scope == ph_scope_begin(vm)
        e == ph_scope_end_print(py_eval(vm, source, left), scope)
    IN  [vm |-> e.vm, ret |-> e.ret]

ph_eval_raise(vm, source, left) ==
    LET scope == ph_scope_begin(vm)
        e == ph_scope_end_raise(py_eval(vm, source, left), scope)
    IN  [vm |-> e.vm, ret |-> e.ret]

ph_eval_in_raise(vm, source, module, left) ==
    LET scope == ph_scope_begin(vm)
        e == ph_scope_end_raise(py_eval(vm, source, left), scope)
    IN  [vm |-> e.vm, ret |-> e.ret]

---------------------------------------------------------------------------
(* 3. Value creation *)

\* Variant of ph_int that builds the value in r1 and hands back r0
ph_int_wrong_cell(vm, val) == [vm |-> py_newint(vm, py_getreg(1), val), ret |-> py_r0]

ph_int(vm, val) == [vm |-> py_newint(vm, py_r0, val), ret |-> py_r0]

ph_float(vm, val) == [vm |-> py_newfloat(vm, py_r0, val), ret |-> py_r0]

ph_str(vm, val) == [vm |-> py_newstr(vm, py_r0, val), ret |-> py_r0]

ph_bool(vm, val) == [vm |-> py_newbool(vm, py_r0, val), ret |-> py_r0]

\* assert(ph__check_reg(reg) && "..."): a build without NDEBUG aborts the
\* process when the check fails; a build with NDEBUG compiles it away.
AssertAborts(ndebug, reg) == ~ndebug /\ ~ph__check_reg(reg)

\* What a ph_*_r constructor leaves when its assert has aborted the process
Aborted(vm) == [vm |-> vm, ret |-> NULL, aborted |-> TRUE]

\* Variant of ph_str_r that builds the value in r0 and copies it over
ph_str_r_via_r0(vm, reg, val, ndebug) ==
    IF AssertAborts(ndebug, reg) THEN Aborted(vm)
    ELSE [vm |-> py_assign(py_newstr(vm, py_r0, val), py_getreg(reg), py_r0),
          ret |-> py_getreg(reg), aborted |-> FALSE]

ph_int_r(vm, reg, val, ndebug) ==
    IF AssertAborts(ndebug, reg) THEN Aborted(vm)
    ELSE [vm |-> py_newint(vm, py_getreg(reg), val), ret |-> py_getreg(reg),
          aborted |-> FALSE]

ph_float_r(vm, reg, val, ndebug) ==
    IF AssertAborts(ndebug, reg) THEN Aborted(vm)
    ELSE [vm |-> py_newfloat(vm, py_getreg(reg), val), ret |-> py_getreg(reg),
          aborted |-> FALSE]

ph_str_r(vm, reg, val, ndebug) ==
    IF AssertAborts(ndebug, reg) THEN Aborted(vm)
    ELSE [vm |-> py_newstr(vm, py_getreg(reg), val), ret |-> py_getreg(reg),
          aborted |-> FALSE]

ph_bool_r(vm, reg, val, ndebug) ==
    IF AssertAborts(ndebug, reg) THEN Aborted(vm)
    ELSE [vm |-> py_newbool(vm, py_getreg(reg), val), ret |-> py_getreg(reg),
          aborted |-> FALSE]

---------------------------------------------------------------------------
(* 4. Safe function calls.  Each returns the state it leaves and the       *)
(* ph_Result r.  `n` is the digit in the function's name (ph_call0..3,     *)
(* ph_callmethod0/1): the argument count it passes.  `left` is how many    *)
(* values the interpreter leaves on the stack if the callee raises.        *)

ph_Result(ok, val) == [ok |-> ok, val |-> val]

NameErrorMsg(func_name) == <<"name is not defined", func_name>>
AttrErrorMsg(method_name) == <<"object has no method", method_name>>

\* Variant of ph_callN that hands the callee the slots after the supplied ones
ph_callN_wrong_args(vm, n, func_name, argv, left) ==
    LET scope == ph_scope_begin(vm)
        g == py_getglobal(vm, func_name)
    IN  IF g.ref = NULL
        THEN LET vm1 == py_exception(g.vm, "NameError", NameErrorMsg(func_name))
             IN  [vm |-> ph_scope_end_print(vm1, scope).vm, r |-> ph_Result(FALSE, NULL)]
        ELSE LET c == py_call(g.vm, g.ref, n, IF n = 0 THEN NULL ELSE RefAdd(argv, 1), left)
                 r == ph_Result(c.ok, IF c.ok THEN py_retval ELSE NULL)
             IN  [vm |-> ph_scope_end_print(c.vm, scope).vm, r |-> r]

\* Variant of ph_callN that hands the result back in r0 instead of py_retval()
ph_callN_val_in_r0(vm, n, func_name, argv, left) ==
    LET scope == ph_scope_begin(vm)
        g == py_getglobal(vm, func_name)
    IN  IF g.ref = NULL
        THEN LET vm1 == py_exception(g.vm, "NameError", NameErrorMsg(func_name))
             IN  [vm |-> ph_scope_end_print(vm1, scope).vm, r |-> ph_Result(FALSE, NULL)]
        ELSE LET c == py_call(g.vm, g.ref, n, IF n = 0 THEN NULL ELSE argv, left)
                 vm2 == IF c.ok THEN py_assign(c.vm, py_r0, py_retval) ELSE c.vm
                 r == ph_Result(c.ok, IF c.ok THEN py_r0 ELSE NULL)
             IN  [vm |-> ph_scope_end_print(vm2, scope).vm, r |-> r]

\* ph_call0, ph_call1, ph_call2, ph_call3
ph_callN(vm, n, func_name, argv, left) ==
    LET scope == ph_scope_begin(vm)
        g == py_getglobal(vm, func_name)
    IN  IF g.ref = NULL
        THEN LET vm1 == py_exception(g.vm, "NameError", NameErrorMsg(func_name))
             IN  [vm |-> ph_scope_end_print(vm1, scope).vm, r |-> ph_Result(FALSE, NULL)]
        ELSE LET c == py_call(g.vm, g.ref, n, IF n = 0 THEN NULL ELSE argv, left)
                 r == ph_Result(c.ok, IF c.ok THEN py_retval ELSE NULL)
             IN  [vm |-> ph_scope_end_print(c.vm, scope).vm, r |-> r]

\* Variant of ph_call that replaces the argument base by NULL when argc is 0
ph_call_null_base(vm, callable, argc, argv, left) ==
    LET scope == ph_scope_begin(vm)
        c == py_call(vm, callable, argc, IF argc = 0 THEN NULL ELSE argv, left)
        r == ph_Result(c.ok, IF c.ok THEN py_retval ELSE NULL)
    IN  [vm |-> ph_scope_end_print(c.vm, scope).vm, r |-> r]

\* ph_call
ph_call(vm, callable, argc, argv, left) ==
    LET scope == ph_scope_begin(vm)
        c == py_call(vm, callable, argc, argv, left)
        r == ph_Result(c.ok, IF c.ok THEN py_retval ELSE NULL)
    IN  [vm |-> ph_scope_end_print(c.vm, scope).vm, r |-> r]

ph_callmethodN_late_scope(vm, n, obj, method_name, arg0, left) ==
    LET vm1 == py_push(vm, Deref(vm, obj))
        scope == ph_scope_begin(vm1)
        m == py_pushmethod(vm1, method_name)
    IN  IF ~m.ok
        THEN LET vm2 == py_exception(m.vm, "AttributeError", AttrErrorMsg(method_name))
             IN  [vm |-> ph_scope_end_print(vm2, scope).vm, r |-> ph_Result(FALSE, NULL)]
        ELSE LET vm3 == IF n = 1 THEN py_push(m.vm, Deref(m.vm, arg0)) ELSE m.vm
                 c == py_vectorcall(vm3, n, left)
                 r == ph_Result(c.ok, IF c.ok THEN py_retval ELSE NULL)
             IN  [vm |-> ph_scope_end_print(c.vm, scope).vm, r |-> r]

\* ph_callmethod0, ph_callmethod1
ph_callmethodN(vm, n, obj, method_name, arg0, left) ==
    LET scope == ph_scope_begin(vm)
        vm1 == py_push(vm, Deref(vm, obj))
        m == py_pushmethod(vm1, method_name)
    IN  IF ~m.ok
        THEN LET vm2 == py_exception(py_pop(m.vm), "AttributeError",
                                     AttrErrorMsg(method_name))
             IN  [vm |-> ph_scope_end_print(vm2, scope).vm, r |-> ph_Result(FALSE, NULL)]
        ELSE LET vm3 == IF n = 1 THEN py_push(m.vm, Deref(m.vm, arg0)) ELSE m.vm
                 c == py_vectorcall(vm3, n, left)
                 r == ph_Result(c.ok, IF c.ok THEN py_retval ELSE NULL)
             IN  [vm |-> ph_scope_end_print(c.vm, scope).vm, r |-> r]

(* Propagating variants *)

ph_callN_raise_ok_on_missing(vm, n, func_name, argv, left) ==
    LET scope == ph_scope_begin(vm)
        g == py_getglobal(vm, func_name)
    IN  IF g.ref = NULL
        THEN [vm |-> ph_scope_end_raise(g.vm, scope).vm, r |-> ph_Result(FALSE, NULL)]
        ELSE LET c == py_call(g.vm, g.ref, n, IF n = 0 THEN NULL ELSE argv, left)
                 r == ph_Result(c.ok, IF c.ok THEN py_retval ELSE NULL)
             IN  [vm |-> ph_scope_end_raise(c.vm, scope).vm, r |-> r]

\* ph_call0_raise, ph_call1_raise, ph_call2_raise, ph_call3_raise
ph_callN_raise(vm, n, func_name, argv, left) ==
    LET scope == ph_scope_begin(vm)
        g == py_getglobal(vm, func_name)
    IN  IF g.ref = NULL
        THEN LET vm1 == py_exception(g.vm, "NameError", NameErrorMsg(func_name))
             IN  [vm |-> ph_scope_end_raise(vm1, scope).vm, r |-> ph_Result(FALSE, NULL)]
        ELSE LET c == py_call(g.vm, g.ref, n, IF n = 0 THEN NULL ELSE argv, left)
                 r == ph_Result(c.ok, IF c.ok THEN py_retval ELSE NULL)
             IN  [vm |-> ph_scope_end_raise(c.vm, scope).vm, r |-> r]

ph_call_raise_clearing(vm, callable, argc, argv, left) ==
    LET scope == ph_scope_begin(vm)
        c == py_call(vm, callable, argc, argv, left)
        r == ph_Result(c.ok, IF c.ok THEN py_retval ELSE NULL)
    IN  [vm |-> ph_scope_end(c.vm, scope).vm, r |-> r]

\* ph_call_raise
ph_call_raise(vm, callable, argc, argv, left) ==
    LET scope == ph_scope_begin(vm)
        c == py_call(vm, callable, argc, argv, left)
        r == ph_Result(c.ok, IF c.ok THEN py_retval ELSE NULL)
    IN  [vm |-> ph_scope_end_raise(c.vm, scope).vm, r |-> r]

\* ph_callmethod0_raise, ph_callmethod1_raise
ph_callmethodN_raise(vm, n, obj, method_name, arg0, left) ==
    LET scope == ph_scope_begin(vm)
        vm1 == py_push(vm, Deref(vm, obj))
        m == py_pushmethod(vm1, method_name)
    IN  IF ~m.ok
        THEN LET vm2 == py_exception(py_pop(m.vm), "AttributeError",
                                     AttrErrorMsg(method_name))
             IN  [vm |-> ph_scope_end_raise(vm2, scope).vm, r |-> ph_Result(FALSE, NULL)]
        ELSE LET vm3 == IF n = 1 THEN py_push(m.vm, Deref(m.vm, arg0)) ELSE m.vm
                 c == py_vectorcall(vm3, n, left)
                 r == ph_Result(c.ok, IF c.ok THEN py_retval ELSE NULL)
             IN  [vm |-> ph_scope_end_raise(c.vm, scope).vm, r |-> r]

(* Register-backed variants *)

ph_callN_r_into_r0(vm, reg, n, func_name, argv, left) ==
    IF ~ph__check_reg(reg) THEN [vm |-> vm, r |-> ph_Result(FALSE, NULL)]
    ELSE
    LET scope == ph_scope_begin(vm)
        g == py_getglobal(vm, func_name)
    IN  IF g.ref = NULL
        THEN LET vm1 == py_exception(g.vm, "NameError", NameErrorMsg(func_name))
             IN  [vm |-> ph_scope_end_print(vm1, scope).vm, r |-> ph_Result(FALSE, NULL)]
        ELSE LET c == py_call(g.vm, g.ref, n, IF n = 0 THEN NULL ELSE argv, left)
                 vm2 == IF c.ok THEN py_assign(py_assign(c.vm, py_r0, py_retval),
                                               py_getreg(reg), py_r0)
                        ELSE c.vm
                 r == ph_Result(c.ok, IF c.ok THEN py_getreg(reg) ELSE NULL)
             IN  [vm |-> ph_scope_end_print(vm2, scope).vm, r |-> r]

\* ph_call0_r, ph_call1_r, ph_call2_r, ph_call3_r
ph_callN_r(vm, reg, n, func_name, argv, left) ==
    IF ~ph__check_reg(reg) THEN [vm |-> vm, r |-> ph_Result(FALSE, NULL)]
    ELSE
    LET scope == ph_scope_begin(vm)
        g == py_getglobal(vm, func_name)
    IN  IF g.ref = NULL
        THEN LET vm1 == py_exception(g.vm, "NameError", NameErrorMsg(func_name))
             IN  [vm |-> ph_scope_end_print(vm1, scope).vm, r |-> ph_Result(FALSE, NULL)]
        ELSE LET c == py_call(g.vm, g.ref, n, IF n = 0 THEN NULL ELSE argv, left)
                 vm2 == IF c.ok THEN py_assign(c.vm, py_getreg(reg), py_retval) ELSE c.vm
                 r == ph_Result(c.ok, IF c.ok THEN py_getreg(reg) ELSE NULL)
             IN  [vm |-> ph_scope_end_print(vm2, scope).vm, r |-> r]

\* Variant of ph_call_r that copies the result cell before looking at r.ok
ph_call_r_copy_always(vm, reg, callable, argc, argv, left) ==
    IF ~ph__check_reg(reg) THEN [vm |-> vm, r |-> ph_Result(FALSE, NULL)]
    ELSE
    LET scope == ph_scope_begin(vm)
        c == py_call(vm, callable, argc, argv, left)
        vm2 == py_assign(c.vm, py_getreg(reg), py_retval)
        r == ph_Result(c.ok, IF c.ok THEN py_getreg(reg) ELSE NULL)
    IN  [vm |-> ph_scope_end_print(vm2, scope).vm, r |-> r]

\* ph_call_r
ph_call_r(vm, reg, callable, argc, argv, left) ==
    IF ~ph__check_reg(reg) THEN [vm |-> vm, r |-> ph_Result(FALSE, NULL)]
    ELSE
    LET scope == ph_scope_begin(vm)
        c == py_call(vm, callable, argc, argv, left)
        vm2 == IF c.ok THEN py_assign(c.vm, py_getreg(reg), py_retval) ELSE c.vm
        r == ph_Result(c.ok, IF c.ok THEN py_getreg(reg) ELSE NULL)
    IN  [vm |-> ph_scope_end_print(vm2, scope).vm, r |-> r]

\* Variant of ph_callmethodN_r that copies the result but hands back py_retval()
ph_callmethodN_r_volatile_val(vm, reg, n, obj, method_name, arg0, left) ==
    IF ~ph__check_reg(reg) THEN [vm |-> vm, r |-> ph_Result(FALSE, NULL)]
    ELSE
    LET scope == ph_scope_begin(vm)
        vm1 == py_push(vm, Deref(vm, obj))
        m == py_pushmethod(vm1, method_name)
    IN  IF ~m.ok
        THEN LET vm2 == py_exception(py_pop(m.vm), "AttributeError",
                                     AttrErrorMsg(method_name))
             IN  [vm |-> ph_scope_end_print(vm2, scope).vm, r |-> ph_Result(FALSE, NULL)]
        ELSE LET vm3 == IF n = 1 THEN py_push(m.vm, Deref(m.vm, arg0)) ELSE m.vm
                 c == py_vectorcall(vm3, n, left)
                 vm4 == IF c.ok THEN py_assign(c.vm, py_getreg(reg), py_retval) ELSE c.vm
                 r == ph_Result(c.ok, IF c.ok THEN py_retval ELSE NULL)
             IN  [vm |-> ph_scope_end_print(vm4, scope).vm, r |-> r]

\* ph_callmethod0_r, ph_callmethod1_r
ph_callmethodN_r(vm, reg, n, obj, method_name, arg0, left) ==
    IF ~ph__check_reg(reg) THEN [vm |-> vm, r |-> ph_Result(FALSE, NULL)]
    ELSE
    LET scope == ph_scope_begin(vm)
        vm1 == py_push(vm, Deref(vm, obj))
        m == py_pushmethod(vm1, method_name)
    IN  IF ~m.ok
        THEN LET vm2 == py_exception(py_pop(m.vm), "AttributeError",
                                     AttrErrorMsg(method_name))
             IN  [vm |-> ph_scope_end_print(vm2, scope).vm, r |-> ph_Result(FALSE, NULL)]
        ELSE LET vm3 == IF n = 1 THEN py_push(m.vm, Deref(m.vm, arg0)) ELSE m.vm
                 c == py_vectorcall(vm3, n, left)
                 vm4 == IF c.ok THEN py_assign(c.vm, py_getreg(reg), py_retval) ELSE c.vm
                 r == ph_Result(c.ok, IF c.ok THEN py_getreg(reg) ELSE NULL)
             IN  [vm |-> ph_scope_end_print(vm4, scope).vm, r |-> r]

(* Register-backed variants that propagate: the dispatcher with stable     *)
(* storage and the propagating guard close                                 *)

\* ph_call0_r_raise, ph_call1_r_raise, ph_call2_r_raise, ph_call3_r_raise
ph_callN_r_raise(vm, reg, n, func_name, argv, left) ==
    IF ~ph__check_reg(reg) THEN [vm |-> vm, r |-> ph_Result(FALSE, NULL)]
    ELSE
    LET scope == ph_scope_begin(vm)
        g == py_getglobal(vm, func_name)
    IN  IF g.ref = NULL
        THEN LET vm1 == py_exception(g.vm, "NameError", NameErrorMsg(func_name))
             IN  [vm |-> ph_scope_end_raise(vm1, scope).vm, r |-> ph_Result(FALSE, NULL)]
        ELSE LET c == py_call(g.vm, g.ref, n, IF n = 0 THEN NULL ELSE argv, left)
                 vm2 == IF c.ok THEN py_assign(c.vm, py_getreg(reg), py_retval) ELSE c.vm
                 r == ph_Result(c.ok, IF c.ok THEN py_getreg(reg) ELSE NULL)
             IN  [vm |-> ph_scope_end_raise(vm2, scope).vm, r |-> r]

\* ph_call_r_raise
ph_call_r_raise(vm, reg, callable, argc, argv, left) ==
    IF ~ph__check_reg(reg) THEN [vm |-> vm, r |-> ph_Result(FALSE, NULL)]
    ELSE
    LET scope == ph_scope_begin(vm)
        c == py_call(vm, callable, argc, argv, left)
        vm2 == IF c.ok THEN py_assign(c.vm, py_getreg(reg), py_retval) ELSE c.vm
        r == ph_Result(c.ok, IF c.ok THEN py_getreg(reg) ELSE NULL)
    IN  [vm |-> ph_scope_end_raise(vm2, scope).vm, r |-> r]

\* ph_callmethod0_r_raise, ph_callmethod1_r_raise
ph_callmethodN_r_raise(vm, reg, n, obj, method_name, arg0, left) ==
    IF ~ph__check_reg(reg) THEN [vm |-> vm, r |-> ph_Result(FALSE, NULL)]
    ELSE
    LET scope == ph_scope_begin(vm)
        vm1 == py_push(vm, Deref(vm, obj))
        m == py_pushmethod(vm1, method_name)
    IN  IF ~m.ok
        THEN LET vm2 == py_exception(py_pop(m.vm), "AttributeError",
                                     AttrErrorMsg(method_name))
             IN  [vm |-> ph_scope_end_raise(vm2, scope).vm, r |-> ph_Result(FALSE, NULL)]
        ELSE LET vm3 == IF n = 1 THEN py_push(m.vm, Deref(m.vm, arg0)) ELSE m.vm
                 c == py_vectorcall(vm3, n, left)
                 vm4 == IF c.ok THEN py_assign(c.vm, py_getreg(reg), py_retval) ELSE c.vm
                 r == ph_Result(c.ok, IF c.ok THEN py_getreg(reg) ELSE NULL)
             IN  [vm |-> ph_scope_end_raise(vm4, scope).vm, r |-> r]

---------------------------------------------------------------------------
(* 5. Function binding helpers: globals of __main__ *)

\* Variant of ph_setglobal that leaves the name as it was
ph_setglobal_unbound(vm, name, val) == vm

ph_setglobal(vm, name, val) == py_setglobal(vm, name, val)

ph_getglobal(vm, name) == py_getglobal(vm, name)

---------------------------------------------------------------------------
(* 7. Argument helpers for native functions.  A native function gets argc  *)
(* and argv; py_arg(i) is argv[i], whatever i is.  `stray` is what the     *)
(* cell after the last argument holds when the function runs.              *)

\* py_arg(i): the i-th cell from argv; past argc it is not an argument
py_arg(vm, argc, argv, i, stray) ==
    [vm |-> Logged(vm, <<"py_arg", i>>),
     val |-> IF i < argc THEN argv[i + 1] ELSE stray]

\* py_castint, py_castfloat, py_checkstr, py_checkbool: true when the value
\* has the type (py_castfloat also takes an int); else raise TypeError
py_checktype(vm, val, accepted) ==
    IF val.tp \in accepted THEN [vm |-> vm, ok |-> TRUE]
    ELSE [vm |-> py_exception(vm, "TypeError", <<"expected", accepted>>), ok |-> FALSE]

\* Each macro gives whether the native function goes on (FALSE: it has
\* returned false) and the variable it declared
PH_ARG_INT(vm, argc, argv, i, stray) ==
    LET a == py_arg(vm, argc, argv, i, stray)
        c == py_checktype(a.vm, a.val, {"int"})
    IN  [vm |-> c.vm, goes_on |-> c.ok, var |-> IF c.ok THEN a.val ELSE NilVal]

PH_ARG_FLOAT(vm, argc, argv, i, stray) ==
    LET a == py_arg(vm, argc, argv, i, stray)
        c == py_checktype(a.vm, a.val, {"int", "float"})
    IN  [vm |-> c.vm, goes_on |-> c.ok, var |-> IF c.ok THEN a.val ELSE NilVal]

PH_ARG_STR(vm, argc, argv, i, stray) ==
    LET a == py_arg(vm, argc, argv, i, stray)
        c == py_checktype(a.vm, a.val, {"str"})
    IN  [vm |-> c.vm, goes_on |-> c.ok, var |-> IF c.ok THEN a.val ELSE NilVal]

PH_ARG_BOOL(vm, argc, argv, i, stray) ==
    LET a == py_arg(vm, argc, argv, i, stray)
        c == py_checktype(a.vm, a.val, {"bool"})
    IN  [vm |-> c.vm, goes_on |-> c.ok, var |-> IF c.ok THEN a.val ELSE NilVal]

---------------------------------------------------------------------------
(* 8. List helpers.  A callback is modelled by what it returns for an      *)
(* item; each invocation is logged.                                        *)

ListVal(items) == [tp |-> "list", v |-> items]

\* py_list_len(list)
py_list_len(vm, list) == Len(Deref(vm, list).v)

\* py_list_getitem(list, i)
py_list_getitem(vm, list, i) == Deref(vm, list).v[i + 1]

\* sum_callback always goes on; find_negative_callback stops at a negative item
CallbackReturns(cb, item) ==
    IF cb = "find_negative_callback" THEN ~(item.v < 0) ELSE TRUE

\* cb(index, item, ctx)
Callback(cb, vm, index, item) ==
    [vm |-> Logged(vm, <<"cb", index, item>>), ret |-> CallbackReturns(cb, item)]

\* Variant of the loop that goes on after a callback returned false
RECURSIVE ForeachNoExit(_, _, _, _, _, _)
ForeachNoExit(vm, list, cb, i, len, sofar) ==
    IF ~(i < len) THEN [vm |-> vm, ret |-> sofar]
    ELSE LET c == Callback(cb, vm, i, py_list_getitem(vm, list, i))
         IN  ForeachNoExit(c.vm, list, cb, i + 1, len, sofar /\ c.ret)

ph_list_foreach_no_exit(vm, list, cb) ==
    ForeachNoExit(vm, list, cb, 0, py_list_len(vm, list), TRUE)

\* for (int i = 0; i < len; i++) { ... if (!cb(i, item, ctx)) return false; }
RECURSIVE ForeachFrom(_, _, _, _, _)
ForeachFrom(vm, list, cb, i, len) ==
    IF ~(i < len) THEN [vm |-> vm, ret |-> TRUE]
    ELSE LET item == py_list_getitem(vm, list, i)
             c == Callback(cb, vm, i, item)
         IN  IF ~c.ret THEN [vm |-> c.vm, ret |-> FALSE]
             ELSE ForeachFrom(c.vm, list, cb, i + 1, len)

ph_list_foreach(vm, list, cb) ==
    LET len == py_list_len(vm, list)
    IN  ForeachFrom(vm, list, cb, 0, len)

\* py_newlistn(out, count); py_newint(py_list_getitem(out, i), vals[i]);
ph_list_from_ints(vm, out, vals, count) ==
    Store(vm, out, ListVal([k \in 1..count |-> IntVal(vals[k])]))

---------------------------------------------------------------------------
(* 7. Value inspection and 9. debug helpers.  `fails` is whether the       *)
(* value's __bool__ or __repr__ raises.                                    *)

ph_is_truthy(vm, val, fails) ==
    LET b == py_bool(vm, Deref(vm, val), fails)
    IN  IF b.r < 0 THEN [vm |-> py_clearexc(b.vm, NoPoint), ret |-> FALSE]
        ELSE [vm |-> b.vm, ret |-> b.r > 0]

\* cb->print(py_tostr(py_retval())); the host installs a print callback
\* Variant of ph_print that clears a failed repr without an unwinding point
ph_print_unguarded(vm, val, fails, left) ==
    LET p == py_repr(vm, Deref(vm, val), fails, left)
    IN  IF p.ok THEN [vm |-> Logged(p.vm, <<"print", py_tostr(p.vm, py_retval)>>),
                      ret |-> TRUE]
        ELSE [vm |-> py_clearexc(p.vm, NoPoint), ret |-> TRUE]

ph_print(vm, val, fails, left) ==
    LET scope == ph_scope_begin(vm)
        p == py_repr(vm, Deref(vm, val), fails, left)
        vm1 == IF p.ok THEN Logged(p.vm, <<"print", py_tostr(p.vm, py_retval)>>)
               ELSE p.vm
    IN  [vm |-> ph_scope_end(vm1, scope).vm, ret |-> TRUE]

ph_repr(vm, val, fails, left) ==
    LET p == py_repr(vm, Deref(vm, val), fails, left)
    IN  IF ~p.ok THEN [vm |-> py_clearexc(p.vm, NoPoint), ret |-> <<"<repr failed>">>]
        ELSE [vm |-> p.vm, ret |-> py_tostr(p.vm, py_retval)]

\* py_tpname(py_typeof(val))
ph_typename(vm, val) == Deref(vm, val).tp

---------------------------------------------------------------------------
(* The C++ wrapper (pktpy_hi.hpp).  2. RAII scope management: a ph::Scope  *)
(* is its unwinding point and the policy it was constructed with.          *)

ExcPolicy == {"Print", "Raise", "Silent"}

\* Scope::Scope(ExcPolicy policy)
Scope(vm, policy) ==
    [unwind_point |-> py_peek0(vm), policy_ |-> policy, exception_checked_ |-> FALSE]

\* Variant of Scope::~Scope that leaves the stack where the region left it
Scope_destroy_noshrink(vm, scope) ==
    IF py_checkexc(vm)
    THEN CASE scope.policy_ = "Print" ->
                py_clearexc(py_printexc(vm), scope.unwind_point)
           [] scope.policy_ = "Silent" -> py_clearexc(vm, scope.unwind_point)
           [] scope.policy_ = "Raise" -> vm
    ELSE vm

\* Scope::~Scope()
Scope_destroy(vm, scope) ==
    LET has_exc == py_checkexc(vm)
        vm1 == IF has_exc
               THEN CASE scope.policy_ = "Print" ->
                           py_clearexc(py_printexc(vm), scope.unwind_point)
                      [] scope.policy_ = "Silent" ->
                           py_clearexc(vm, scope.unwind_point)
                      [] scope.policy_ = "Raise" -> vm
               ELSE vm
        depth == py_peek0(vm1) - scope.unwind_point
    IN  IF depth > 0 THEN py_shrink(vm1, depth) ELSE vm1

(* 3. Result type *)

Result_failure == [ok |-> FALSE, val |-> NULL]

Result_success(val) == [ok |-> TRUE, val |-> val]

(* 6. Function calls.  `args` are the references the host passes, in order *)

\* detail::to_reg(reg, v)
to_reg(vm, reg, r) == py_assign(vm, py_getreg(reg), r)

\* detail::to_reg(4, a0); detail::to_reg(5, a1); ...
RECURSIVE ArgsToRegs(_, _, _)
ArgsToRegs(vm, args, k) ==
    IF k > Len(args) THEN vm
    ELSE ArgsToRegs(to_reg(vm, 4 + k - 1, args[k]), args, k + 1)

\* ph::call(func_name), ph::call(func_name, a0), ..., ph::call(func_name, a0, a1, a2, a3)
call(vm, func_name, args, left) ==
    LET scope == Scope(vm, "Print")
        fn == py_getglobal(vm, func_name)
    IN  IF fn.ref = NULL
        THEN LET vm1 == py_exception(fn.vm, "NameError", NameErrorMsg(func_name))
             IN  [vm |-> Scope_destroy(vm1, scope), r |-> Result_failure]
        ELSE LET vm2 == ArgsToRegs(fn.vm, args, 1)
                 c == py_call(vm2, fn.ref, Len(args),
                              IF args = <<>> THEN NULL ELSE py_getreg(4), left)
                 ok == c.ok /\ ~py_checkexc(c.vm)
             IN  [vm |-> Scope_destroy(c.vm, scope),
                  r |-> IF ok THEN Result_success(py_retval) ELSE Result_failure]

\* ph::call_r(reg, func_name, args...): the assert on reg aborts a build
\* without NDEBUG; a build with NDEBUG stores through py_getreg(reg)
call_r(vm, reg, func_name, args, left, ndebug) ==
    LET result == call(vm, func_name, args, left)
    IN  IF ~result.r.ok THEN [vm |-> result.vm, r |-> result.r, aborted |-> FALSE]
        ELSE IF ~ndebug /\ ~(reg >= 0 /\ reg < 8)
        THEN [vm |-> result.vm, r |-> Result_failure, aborted |-> TRUE]
        ELSE [vm |-> Store(result.vm, py_getreg(reg), Deref(result.vm, result.r.val)),
              r |-> Result_success(py_getreg(reg)), aborted |-> FALSE]

(* 4. Move-only value type: a ph::Value is the reference it holds and the  *)
(* register it was created in (-1: none)                                   *)

\* Value::Value(py_GlobalRef ref, int reg)
Value(ref, reg) == [ref_ |-> ref, reg_ |-> reg]

\* Value::Value() = default
Value_empty == Value(NULL, -1)

\* Value::valid()
valid(v) == v.ref_ # NULL

\* Value::integer(val, reg), with reg in 0..7: the assert passes
Value_integer(vm, val, reg) ==
    [vm |-> py_newint(vm, py_getreg(reg), val), ret |-> Value(py_getreg(reg), reg)]

Value_floating(vm, val, reg) ==
    [vm |-> py_newfloat(vm, py_getreg(reg), val), ret |-> Value(py_getreg(reg), reg)]

Value_string(vm, val, reg) ==
    [vm |-> py_newstr(vm, py_getreg(reg), val), ret |-> Value(py_getreg(reg), reg)]

Value_boolean(vm, val, reg) ==
    [vm |-> py_newbool(vm, py_getreg(reg), val), ret |-> Value(py_getreg(reg), reg)]

\* Value::wrap(r)
Value_wrap(r) == Value(r, -1)

\* Value& operator=(Value&& other), this # &other; also Value(Value&& other)
Value_move(other) == [this |-> Value(other.ref_, other.reg_), other |-> Value_empty]

\* The C++ variables the host keeps Values in
ValueVars == {"a", "b"}

NoValues == [x \in ValueVars |-> Value_empty]

---------------------------------------------------------------------------
(* The host's calls *)

NoLast == [op |-> "none", policy |-> "none", reg |-> 0, name |-> "", argc |-> 0,
           argv |-> NULL, target |-> NULL, tval |-> NilVal, args |-> <<>>,
           ok |-> FALSE, val |-> NULL, depth0 |-> 0, entry |-> 0, exc0 |-> NoExc,
           prev |-> NULL, pval |-> NilVal, aborted |-> FALSE, inner |-> FALSE,
           below |-> FALSE]

\* Write an interpreter state back to the variables
Commit(vm) ==
    /\ stack' = vm.stack
    /\ regs' = vm.regs
    /\ retval' = vm.retval
    /\ exc' = vm.exc
    /\ globals' = vm.globals
    /\ log' = vm.log

Init ==
    /\ stack = <<>>
    /\ regs = [i \in 0..(PH_MAX_REG - 1) |-> NilVal]
    /\ retval = NilVal
    /\ exc = NoExc
    /\ globals = DefinedGlobals
    /\ scopes = <<>>
    /\ closed = NoScope
    /\ inner = <<>>
    /\ below = <<>>
    /\ log = <<>>
    /\ last = NoLast
    /\ values = NoValues

\* ph_Scope s = ph_scope_begin();
HostScopeBegin ==
    /\ Len(scopes) < MaxScopes
    /\ scopes' = Append(scopes, ph_scope_begin(VM))
    /\ Commit(VM)
    /\ last' = [NoLast EXCEPT !.op = "scope_begin"]
    /\ inner' = Append(inner, FALSE)
    /\ below' = Append(below, FALSE)
    /\ closed' = NoScope
    /\ UNCHANGED values

PushInputs == {5}

\* py_push(ph_int(v));
HostPush ==
    /\ Len(stack) < MaxStack
    /\ \E v \in PushInputs :
         LET c == ph_int(VM, v)
         IN  Commit(py_push(c.vm, Deref(c.vm, c.ret)))
    /\ last' = [NoLast EXCEPT !.op = "push"]
    /\ closed' = NoScope
    /\ UNCHANGED <<scopes, inner, below>>
    /\ UNCHANGED values

\* py_pop();
HostPop ==
    /\ Len(stack) > 0
    /\ Commit(py_pop(VM))
    /\ last' = [NoLast EXCEPT !.op = "pop"]
    /\ below' = [k \in DOMAIN scopes |->
                   below[k] \/ Len(stack) - 1 < scopes[k].unwind_point]
    /\ closed' = NoScope
    /\ UNCHANGED <<scopes, inner>>
    /\ UNCHANGED values

\* py_exec(source, "<test>", EXEC_MODE, NULL); run raw, inside or outside a guard
HostExecRaw ==
    /\ exc = NoExc
    /\ \E src \in Sources, left \in 0..MaxLeft :
         /\ Len(stack) + left <= MaxStack
         /\ Commit(py_exec(VM, src, left))
         /\ last' = [NoLast EXCEPT !.op = "exec_raw", !.name = src]
    /\ closed' = NoScope
    /\ UNCHANGED <<scopes, inner, below>>
    /\ UNCHANGED values

\* py_clearexc(NULL); the host clears the pending exception itself
HostClearExc ==
    /\ exc # NoExc
    /\ Commit(py_clearexc(VM, NoPoint))
    /\ last' = [NoLast EXCEPT !.op = "clearexc"]
    /\ closed' = NoScope
    /\ UNCHANGED <<scopes, inner, below>>
    /\ UNCHANGED values

\* What a close tells the enclosing guard: whether a clearing close found an
\* error pending
NestedOutcome(policy, pending) == pending # NoExc /\ policy \in {"silent", "print"}

\* The innermost guard leaves; the guard around it remembers the outcome
Enclosing(marks, outcome) ==
    LET n == Len(marks) - 1
    IN  [k \in 1..n |-> IF k < n THEN marks[k] ELSE marks[k] \/ outcome]

\* ph_scope_end(&s); ph_scope_end_print(&s); ph_scope_end_raise(&s);
\* on the innermost open guard
HostScopeEnd ==
    /\ scopes # <<>>
    /\ \E policy \in Policies :
         LET s == scopes[Len(scopes)]
             e == ScopeEnd(policy, VM, s)
         IN  /\ Commit(e.vm)
             /\ closed' = e.scope
             /\ last' = [NoLast EXCEPT !.op = "scope_end", !.policy = policy,
                                       !.ok = e.ret, !.depth0 = Len(stack),
                                       !.entry = s.unwind_point, !.exc0 = exc,
                                       !.inner = inner[Len(scopes)],
                                       !.below = below[Len(scopes)]]
             /\ inner' = Enclosing(inner, NestedOutcome(policy, exc))
    /\ scopes' = SubSeq(scopes, 1, Len(scopes) - 1)
    /\ below' = SubSeq(below, 1, Len(scopes) - 1)
    /\ UNCHANGED values

NextScope ==
    \/ HostScopeBegin
    \/ HostPush
    \/ HostPop
    \/ HostExecRaw
    \/ HostClearExc
    \/ HostScopeEnd

SpecScope == Init /\ [][NextScope]_vars

---------------------------------------------------------------------------
(* A host that closes a guard it has already closed.  It uses one guard at *)
(* a time.                                                                 *)

\* ph_Scope s = ph_scope_begin();  with no other guard open
HostScopeBeginOne ==
    /\ scopes = <<>>
    /\ HostScopeBegin

\* ph_scope_end(&s); py_push(ph_int(v));  the host pushes while it holds
\* the closed guard
HostPushAfterClose ==
    /\ closed # NoScope
    /\ Len(stack) < MaxStack
    /\ \E v \in PushInputs :
         LET c == ph_int(VM, v)
         IN  Commit(py_push(c.vm, Deref(c.vm, c.ret)))
    /\ last' = [NoLast EXCEPT !.op = "push"]
    /\ UNCHANGED <<scopes, closed, inner, below>>
    /\ UNCHANGED values

\* ph_scope_end(&s); py_exec(source, ...);  the host runs a script while it
\* holds the closed guard
HostExecAfterClose ==
    /\ closed # NoScope
    /\ exc = NoExc
    /\ \E src \in Sources, left \in 0..MaxLeft :
         /\ Len(stack) + left <= MaxStack
         /\ Commit(py_exec(VM, src, left))
         /\ last' = [NoLast EXCEPT !.op = "exec_raw", !.name = src]
    /\ UNCHANGED <<scopes, closed, inner, below>>
    /\ UNCHANGED values

\* ph_scope_end(&s); ... ph_scope_end(&s);  the second close, under any
\* policy, of the guard the host holds
HostScopeEndAgain ==
    /\ closed # NoScope
    /\ \E policy \in Policies :
         LET e == ScopeEnd(policy, VM, closed)
         IN  /\ Commit(e.vm)
             /\ closed' = e.scope
             /\ last' = [NoLast EXCEPT !.op = "scope_end_again", !.policy = policy,
                                       !.ok = e.ret, !.depth0 = Len(stack),
                                       !.entry = closed.unwind_point, !.exc0 = exc]
             /\ below' = [k \in DOMAIN scopes |->
                            below[k] \/ Len(e.vm.stack) < scopes[k].unwind_point]
    /\ UNCHANGED <<scopes, inner>>
    /\ UNCHANGED values

NextReclose ==
    \/ HostScopeBeginOne
    \/ HostPush
    \/ HostPop
    \/ HostExecRaw
    \/ HostClearExc
    \/ HostScopeEnd
    \/ HostPushAfterClose
    \/ HostExecAfterClose
    \/ HostScopeEndAgain

SpecReclose == Init /\ [][NextReclose]_vars

---------------------------------------------------------------------------
(* The host's calls into the call dispatcher.  The host settles a pending  *)
(* exception before it runs the interpreter again.                         *)

Variants == {"base", "raise", "r"}

\* How the host named the target of its last call
CallOps == {"call_name", "call_ref", "call_method"}

\* Register indices the host passes to the _r variants: valid and invalid
RegInputs == {-1, 4, 5, 8}

IntInputs == {5}

\* Argument bases the host passes
ArgRefs == {RegRef(0), RegRef(4), RetvalRef}

CallNames == {"get_value", "double", "add_ten", "add", "sum3", "fail",
              "nonexistent_function"}

CallableRefs == {GlobalRef(NameIndex("double")), GlobalRef(NameIndex("add")),
                 GlobalRef(NameIndex("fail")), GlobalRef(NameIndex("num"))}

RecvRefs == {GlobalRef(NameIndex("obj")), GlobalRef(NameIndex("num"))}

MethodInputs == {"get", "add", "fail", "nonexistent_method"}

\* The values argv[0..argc-1] hold when the host makes the call
ArgValues(argv, argc) == [k \in 1..argc |-> Deref(VM, RefAdd(argv, k - 1))]

\* The host passes argc initialised integer cells, none above MaxInt
ArgsOK(argv, argc) ==
    /\ argv.k = "reg" => argv.i + argc <= PH_MAX_REG
    /\ argv.k = "retval" => argc = 1
    /\ \A k \in 1..argc :
         /\ ArgValues(argv, argc)[k].tp = "int"
         /\ ArgValues(argv, argc)[k].v <= MaxInt

\* The argument counts the host uses with a callable: the callee's own
\* parameter count; any count with a name that is not defined
ValueArities(v) == IF v.tp = "function" THEN {FuncArity(v.v)} ELSE {0}

NameArities(name) ==
    IF NameIndex(name) = 0 THEN 0..3 ELSE ValueArities(globals[name])

MethodArities(obj, name) ==
    IF MethodId(Deref(VM, obj).tp, name) # 0
    THEN {MethodArity(MethodId(Deref(VM, obj).tp, name))}
    ELSE IF Deref(VM, obj).tp = "Acc" THEN 0..1 ELSE {0}

\* py_GlobalRef a = ph_int(v);
HostInt ==
    /\ last = NoLast
    /\ \E v \in IntInputs :
         LET c == ph_int(VM, v)
         IN  /\ Commit(c.vm)
             /\ last' = [NoLast EXCEPT !.op = "int", !.reg = 0, !.val = c.ret,
                                       !.depth0 = Len(stack), !.exc0 = exc]
    /\ UNCHANGED <<scopes, closed, inner, below>>
    /\ UNCHANGED values

\* ph_Result r = ph_callN(name, argv); ph_callN_raise(...); ph_callN_r(reg, ...);
DoCallName(names, regset) ==
    /\ exc = NoExc
    /\ last = NoLast
    /\ \E variant \in Variants, name \in names, n \in 0..3,
          argv \in ArgRefs \cup {NULL}, reg \in regset, left \in 0..MaxLeft :
         /\ n \in NameArities(name)
         /\ variant # "r" => reg = CHOOSE x \in regset : TRUE
         /\ IF n = 0 THEN argv = NULL ELSE argv # NULL /\ ArgsOK(argv, n)
         /\ LET c == CASE variant = "base" -> ph_callN(VM, n, name, argv, left)
                       [] variant = "raise" -> ph_callN_raise(VM, n, name, argv, left)
                       [] variant = "r" -> ph_callN_r(VM, reg, n, name, argv, left)
            IN  /\ Commit(c.vm)
                /\ last' = [NoLast EXCEPT
                              !.op = "call_name", !.policy = variant, !.reg = reg,
                              !.name = name, !.argc = n, !.argv = argv,
                              !.tval = IF NameIndex(name) = 0 THEN NilVal
                                       ELSE globals[name],
                              !.args = ArgValues(argv, n),
                              !.ok = c.r.ok, !.val = c.r.val,
                              !.depth0 = Len(stack), !.exc0 = exc]
    /\ UNCHANGED <<scopes, closed, inner, below>>
    /\ UNCHANGED values

\* ph_Result r = ph_call(fn, argc, argv); ph_call_raise(...); ph_call_r(reg, ...);
DoCallRef(callables, regset) ==
    /\ exc = NoExc
    /\ last = NoLast
    /\ \E variant \in Variants, callable \in callables, argc \in 0..2,
          argv \in ArgRefs \cup {NULL}, reg \in regset, left \in 0..MaxLeft :
         /\ argc \in ValueArities(Deref(VM, callable))
         /\ variant # "r" => reg = CHOOSE x \in regset : TRUE
         /\ IF argc = 0 THEN argv \in {NULL, RegRef(0)}
            ELSE argv # NULL /\ ArgsOK(argv, argc)
         /\ LET c == CASE variant = "base" -> ph_call(VM, callable, argc, argv, left)
                       [] variant = "raise" -> ph_call_raise(VM, callable, argc, argv, left)
                       [] variant = "r" -> ph_call_r(VM, reg, callable, argc, argv, left)
            IN  /\ Commit(c.vm)
                /\ last' = [NoLast EXCEPT
                              !.op = "call_ref", !.policy = variant, !.reg = reg,
                              !.argc = argc, !.argv = argv, !.target = callable,
                              !.tval = Deref(VM, callable),
                              !.args = ArgValues(argv, argc),
                              !.ok = c.r.ok, !.val = c.r.val,
                              !.depth0 = Len(stack), !.exc0 = exc]
    /\ UNCHANGED <<scopes, closed, inner, below>>
    /\ UNCHANGED values

\* ph_Result r = ph_callmethodN(obj, name, arg0); ..._raise(...); ..._r(reg, ...);
DoCallMethod(recvs, methods, regset) ==
    /\ exc = NoExc
    /\ last = NoLast
    /\ \E variant \in Variants, obj \in recvs, name \in methods, n \in 0..1,
          arg0 \in ArgRefs \cup {NULL}, reg \in regset, left \in 0..MaxLeft :
         /\ n \in MethodArities(obj, name)
         /\ variant # "r" => reg = CHOOSE x \in regset : TRUE
         /\ IF n = 0 THEN arg0 = NULL ELSE arg0 # NULL /\ ArgsOK(arg0, 1)
         /\ LET c == CASE variant = "base" ->
                            ph_callmethodN(VM, n, obj, name, arg0, left)
                       [] variant = "raise" ->
                            ph_callmethodN_raise(VM, n, obj, name, arg0, left)
                       [] variant = "r" ->
                            ph_callmethodN_r(VM, reg, n, obj, name, arg0, left)
            IN  /\ Commit(c.vm)
                /\ last' = [NoLast EXCEPT
                              !.op = "call_method", !.policy = variant, !.reg = reg,
                              !.name = name, !.argc = n, !.argv = arg0,
                              !.target = obj, !.tval = Deref(VM, obj),
                              !.args = ArgValues(arg0, n),
                              !.ok = c.r.ok, !.val = c.r.val,
                              !.depth0 = Len(stack), !.exc0 = exc]
    /\ UNCHANGED <<scopes, closed, inner, below>>
    /\ UNCHANGED values

HostCallName == DoCallName(CallNames, RegInputs)

HostCallRef == DoCallRef(CallableRefs, RegInputs)

HostCallMethod == DoCallMethod(RecvRefs, MethodInputs, RegInputs)

\* The dispatcher is entered with r0..r2 filled by ph_int_r and the stack
\* as the caller left it.
InitCall ==
    /\ stack \in {<<>>, <<IntVal(5)>>}
    /\ regs = ph_int_r(ph_int_r(ph_int_r(
                 [stack |-> <<>>, regs |-> [i \in 0..(PH_MAX_REG - 1) |-> NilVal],
                  retval |-> NilVal, exc |-> NoExc, globals |-> DefinedGlobals,
                  log |-> <<>>], 0, 5, FALSE).vm, 1, 5, FALSE).vm, 2, 5, FALSE).vm.regs
    /\ retval = NilVal
    /\ exc = NoExc
    /\ globals = DefinedGlobals
    /\ scopes = <<>>
    /\ closed = NoScope
    /\ inner = <<>>
    /\ below = <<>>
    /\ log = <<>>
    /\ last = NoLast
    /\ values = NoValues

\* The ph_Result and the call's arguments go out of the host's scope.
HostReturn ==
    /\ last # NoLast
    /\ last' = NoLast
    /\ log' = <<>>
    /\ UNCHANGED <<stack, regs, retval, exc, globals, scopes, closed, inner, below>>
    /\ UNCHANGED values

NextCall ==
    \/ HostReturn
    \/ HostInt
    \/ HostClearExc
    \/ HostCallName
    \/ HostCallRef
    \/ HostCallMethod

SpecCall == InitCall /\ [][NextCall]_vars

---------------------------------------------------------------------------
(* The host's nullary calls with every register index, valid and invalid.  *)
(* The host keeps results in at most MaxLive registers at once.            *)

AllRegInputs == -1..PH_MAX_REG

LiveRegs == {i \in ValidRegs : regs[i] # NilVal}

\* Registers the host may name as the target of its next call
TargetRegs ==
    {r \in AllRegInputs :
        r \notin ValidRegs \/ r \in LiveRegs \/ Cardinality(LiveRegs) < MaxLive}

NullaryNames == {"get_value", "fail", "nonexistent_function"}

NullaryRefs == {GlobalRef(NameIndex("get_value")), GlobalRef(NameIndex("fail")),
                GlobalRef(NameIndex("num"))}

NullaryMethods == {"get", "fail", "nonexistent_method"}

\* ph_call0("get_value"); ph_call0_raise(...); ph_call0_r(reg, ...);
HostCall0 == DoCallName(NullaryNames, TargetRegs)

\* ph_call(fn, 0, NULL); ph_call_raise(...); ph_call_r(reg, ...);
HostCallRef0 == DoCallRef(NullaryRefs, TargetRegs)

\* ph_callmethod0(obj, "get"); ph_callmethod0_raise(...); ph_callmethod0_r(reg, ...);
HostCallMethod0 == DoCallMethod(RecvRefs, NullaryMethods, TargetRegs)

\* r1 = ph_call...(...); r2 = ph_call0(name); the host still holds r1, the
\* result of a successful base or _raise call, when it makes the next one.
\* prev is r1.val and pval the value read through it when r1 was returned.
HostCallAgain ==
    /\ last.op \in CallOps
    /\ last.policy \in {"base", "raise"}
    /\ last.ok
    /\ last.prev = NULL
    /\ \E variant \in {"base", "raise"}, name \in NullaryNames, left \in 0..MaxLeft :
         LET vm0 == [VM EXCEPT !.log = <<>>]
             c == IF variant = "base" THEN ph_callN(vm0, 0, name, NULL, left)
                  ELSE ph_callN_raise(vm0, 0, name, NULL, left)
         IN  /\ Commit(c.vm)
             /\ last' = [NoLast EXCEPT
                           !.op = "call_name", !.policy = variant,
                           !.reg = last.reg, !.name = name,
                           !.tval = IF NameIndex(name) = 0 THEN NilVal
                                    ELSE globals[name],
                           !.ok = c.r.ok, !.val = c.r.val,
                           !.depth0 = Len(stack), !.exc0 = exc,
                           !.prev = last.val, !.pval = Deref(VM, last.val)]
    /\ UNCHANGED <<scopes, closed, inner, below>>
    /\ UNCHANGED values

NextResult ==
    \/ HostReturn
    \/ HostCallAgain
    \/ HostClearExc
    \/ HostCall0
    \/ HostCallRef0
    \/ HostCallMethod0

SpecResult == Init /\ [][NextResult]_vars

---------------------------------------------------------------------------
(* The host's value constructors: ph_int .. ph_bool into r0, ph_int_r ..   *)
(* ph_bool_r into a register the host names, valid or invalid, in a build  *)
(* with or without NDEBUG.                                                 *)

Kinds == {"int", "float", "str", "bool"}

\* Payloads the host constructs (the float payload 3 stands for 3.0)
KindInputs(kind) ==
    CASE kind = "int" -> {1, 2}
      [] kind = "float" -> {3}
      [] kind = "str" -> {"hello"}
      [] OTHER -> {TRUE}

\* ph_int(v), ph_float(v), ph_str(v), ph_bool(v)
Create(kind, vm, v) ==
    CASE kind = "int" -> ph_int(vm, v)
      [] kind = "float" -> ph_float(vm, v)
      [] kind = "str" -> ph_str(vm, v)
      [] OTHER -> ph_bool(vm, v)

\* ph_int_r(reg, v), ph_float_r(reg, v), ph_str_r(reg, v), ph_bool_r(reg, v)
CreateR(kind, vm, reg, v, ndebug) ==
    CASE kind = "int" -> ph_int_r(vm, reg, v, ndebug)
      [] kind = "float" -> ph_float_r(vm, reg, v, ndebug)
      [] kind = "str" -> ph_str_r(vm, reg, v, ndebug)
      [] OTHER -> ph_bool_r(vm, reg, v, ndebug)

\* The value a constructor of this kind builds from payload v
Built(kind, v) ==
    CASE kind = "int" -> IntVal(v)
      [] kind = "float" -> FloatVal(v)
      [] kind = "str" -> StrVal(v)
      [] OTHER -> BoolVal(v)

\* The constructors run whatever the caller left on the stack and in the
\* pending-exception cell.
InitCreate ==
    /\ \/ stack = <<>> /\ exc = NoExc
       \/ stack = <<IntVal(5)>> /\ exc = Exc("ValueError", <<"oops">>)
    /\ regs = [i \in ValidRegs |-> NilVal]
    /\ retval = NilVal
    /\ globals = DefinedGlobals
    /\ scopes = <<>>
    /\ closed = NoScope
    /\ inner = <<>>
    /\ below = <<>>
    /\ log = <<>>
    /\ last = NoLast
    /\ values = NoValues

\* The host process has aborted, or a store has landed outside the register
\* bank: nothing the host does afterwards is defined.
HostDead ==
    \/ last.aborted
    \/ SelectSeq(log, LAMBDA e : e[1] = "wild_write") # <<>>

\* py_GlobalRef a = ph_int(v);  (and ph_float, ph_str, ph_bool)
\* pval is what r0 held before, i.e. what an earlier reference to r0 read.
HostCreate ==
    /\ ~HostDead
    /\ 0 \in TargetRegs
    /\ \E kind \in Kinds :
         \E v \in KindInputs(kind) :
           LET c == Create(kind, [VM EXCEPT !.log = <<>>], v)
           IN  /\ Commit(c.vm)
               /\ last' = [NoLast EXCEPT
                             !.op = "create", !.name = kind, !.reg = 0,
                             !.tval = Built(kind, v), !.val = c.ret,
                             !.pval = regs[0],
                             !.depth0 = Len(stack), !.exc0 = exc]
    /\ UNCHANGED <<scopes, closed, inner, below>>
    /\ UNCHANGED values

\* py_GlobalRef a = ph_int_r(reg, v);  (and ph_float_r, ph_str_r, ph_bool_r)
HostCreateR ==
    /\ ~HostDead
    /\ \E kind \in Kinds, reg \in TargetRegs, ndebug \in BOOLEAN :
         \E v \in KindInputs(kind) :
           LET c == CreateR(kind, [VM EXCEPT !.log = <<>>], reg, v, ndebug)
           IN  /\ reg \in ValidRegs => ~ndebug
               /\ Commit(c.vm)
               /\ last' = [NoLast EXCEPT
                             !.op = "create_r", !.name = kind, !.reg = reg,
                             !.tval = Built(kind, v), !.val = c.ret,
                             !.aborted = c.aborted,
                             !.depth0 = Len(stack), !.exc0 = exc]
    /\ UNCHANGED <<scopes, closed, inner, below>>
    /\ UNCHANGED values

NextCreate ==
    \/ HostCreate
    \/ HostCreateR

SpecCreate == InitCreate /\ [][NextCreate]_vars

---------------------------------------------------------------------------
(* A host that uses only the operations that do not propagate: ph_exec,    *)
(* ph_eval and their _in forms, the base and _r calls, ph_print, ph_repr,  *)
(* ph_is_truthy, and guards closed with ph_scope_end or ph_scope_end_print *)
(* around raw interpreter runs.  It calls the wrappers outside its guards. *)

\* ph_exec, ph_exec_in, ph_eval, ph_eval_in; the _in forms get the main module
Exec(kind, vm, src, left) ==
    CASE kind = "exec" -> ph_exec(vm, src, left)
      [] kind = "exec_in" -> ph_exec_in(vm, src, "__main__", left)
      [] kind = "eval" -> ph_eval(vm, src, left)
      [] kind = "eval_in" -> ph_eval_in(vm, src, "__main__", left)

\* Values the host inspects
ValRefs == {RegRef(0), GlobalRef(NameIndex("obj"))}

\* bool ok = ph_exec(source, "<test>");  (and ph_exec_in, ph_eval, ph_eval_in)
HostExec ==
    /\ scopes = <<>>
    /\ last = NoLast
    /\ \E kind \in {"exec", "exec_in", "eval", "eval_in"}, left \in 0..MaxLeft :
         \E src \in IF kind \in {"exec", "exec_in"} THEN Sources ELSE Expressions :
           LET c == Exec(kind, VM, src, left)
           IN  /\ Len(stack) + left <= MaxStack
               /\ Commit(c.vm)
               /\ last' = [NoLast EXCEPT !.op = kind, !.name = src, !.ok = c.ret,
                                         !.depth0 = Len(stack), !.exc0 = exc]
    /\ UNCHANGED <<scopes, closed, inner, below>>
    /\ UNCHANGED values

\* bool t = ph_is_truthy(val);
HostIsTruthy ==
    /\ scopes = <<>>
    /\ last = NoLast
    /\ \E val \in ValRefs, fails \in BOOLEAN :
         LET c == ph_is_truthy(VM, val, fails)
         IN  /\ Commit(c.vm)
             /\ last' = [NoLast EXCEPT !.op = "is_truthy", !.target = val,
                                       !.ok = c.ret, !.aborted = fails,
                                       !.depth0 = Len(stack), !.exc0 = exc]
    /\ UNCHANGED <<scopes, closed, inner, below>>
    /\ UNCHANGED values

\* ph_print(val);
HostPrint ==
    /\ scopes = <<>>
    /\ last = NoLast
    /\ \E val \in ValRefs, fails \in BOOLEAN, left \in 0..MaxLeft :
         LET c == ph_print(VM, val, fails, left)
         IN  /\ Len(stack) + left <= MaxStack
             /\ ~fails => left = 0
             /\ Commit(c.vm)
             /\ last' = [NoLast EXCEPT !.op = "print", !.target = val,
                                       !.ok = ~fails,
                                       !.depth0 = Len(stack), !.exc0 = exc]
    /\ UNCHANGED <<scopes, closed, inner, below>>
    /\ UNCHANGED values

\* const char* s = ph_repr(val);   lefts: how much a failing repr may leave
DoRepr(lefts) ==
    /\ scopes = <<>>
    /\ last = NoLast
    /\ \E val \in ValRefs, fails \in BOOLEAN, left \in lefts :
         LET c == ph_repr(VM, val, fails, left)
         IN  /\ Len(stack) + left <= MaxStack
             /\ ~fails => left = 0
             /\ Commit(c.vm)
             /\ last' = [NoLast EXCEPT !.op = "repr", !.target = val,
                                       !.ok = ~fails, !.args = c.ret,
                                       !.depth0 = Len(stack), !.exc0 = exc]
    /\ UNCHANGED <<scopes, closed, inner, below>>
    /\ UNCHANGED values

\* This host's values have reprs that leave nothing on the stack when they raise
HostRepr == DoRepr({0})

\* This host passes -1 and 4 as register indices to the _r variants
QuietNames == {"get_value", "add", "fail", "nonexistent_function"}

QuietRefs == {GlobalRef(NameIndex("double")), GlobalRef(NameIndex("fail")),
              GlobalRef(NameIndex("num"))}

\* ph_callN(name, argv); ph_callN_r(reg, name, argv);
HostQuietCallName ==
    scopes = <<>> /\ DoCallName(QuietNames, {-1, 4}) /\ last'.policy # "raise"

\* ph_call(fn, argc, argv); ph_call_r(reg, fn, argc, argv);
HostQuietCallRef ==
    scopes = <<>> /\ DoCallRef(QuietRefs, {-1, 4}) /\ last'.policy # "raise"

\* ph_callmethodN(obj, name, arg0); ph_callmethodN_r(reg, obj, name, arg0);
HostQuietCallMethod ==
    /\ scopes = <<>>
    /\ DoCallMethod(RecvRefs, NullaryMethods, {-1, 4})
    /\ last'.policy # "raise"

\* py_exec(...) run raw, inside a guard
HostGuardedExec == scopes # <<>> /\ HostExecRaw

\* ph_scope_end(&s); ph_scope_end_print(&s);
HostQuietScopeEnd == HostScopeEnd /\ last'.policy # "raise"

NextQuiet ==
    \/ HostReturn
    \/ HostExec
    \/ HostIsTruthy
    \/ HostPrint
    \/ HostRepr
    \/ HostQuietCallName
    \/ HostQuietCallRef
    \/ HostQuietCallMethod
    \/ HostScopeBegin
    \/ HostGuardedExec
    \/ HostQuietScopeEnd

SpecQuiet == InitCall /\ [][NextQuiet]_vars

---------------------------------------------------------------------------
(* A host that runs scripts and expressions through the execution helpers, *)
(* in both families, with whatever it pushed on the stack.                 *)

QuietExecs == {"exec", "exec_in", "eval", "eval_in"}

RaiseExecs == {"exec_raise", "exec_in_raise", "eval_raise", "eval_in_raise"}

\* ph_exec_raise, ph_exec_in_raise, ph_eval_raise, ph_eval_in_raise
ExecRaise(kind, vm, src, left) ==
    CASE kind = "exec_raise" -> ph_exec_raise(vm, src, left)
      [] kind = "exec_in_raise" -> ph_exec_in_raise(vm, src, "__main__", left)
      [] kind = "eval_raise" -> ph_eval_raise(vm, src, left)
      [] kind = "eval_in_raise" -> ph_eval_in_raise(vm, src, "__main__", left)

\* bool ok = ph_exec(...); the host has settled any pending exception
HostExecSettled == exc = NoExc /\ HostExec

\* bool ok = ph_exec_raise(source, "<test>");  (and the other _raise forms)
HostExecRaise ==
    /\ exc = NoExc
    /\ scopes = <<>>
    /\ last = NoLast
    /\ \E kind \in RaiseExecs, left \in 0..MaxLeft :
         \E src \in IF kind \in {"exec_raise", "exec_in_raise"}
                    THEN Sources ELSE Expressions :
           LET c == ExecRaise(kind, VM, src, left)
           IN  /\ Len(stack) + left <= MaxStack
               /\ Commit(c.vm)
               /\ last' = [NoLast EXCEPT !.op = kind, !.name = src, !.ok = c.ret,
                                         !.depth0 = Len(stack), !.exc0 = exc]
    /\ UNCHANGED <<scopes, closed, inner, below>>
    /\ UNCHANGED values

NextExec ==
    \/ HostReturn
    \/ HostPush
    \/ HostPop
    \/ HostClearExc
    \/ HostExecSettled
    \/ HostExecRaise

SpecExec == Init /\ [][NextExec]_vars

---------------------------------------------------------------------------
(* The host of the register-backed propagating calls: one call, then the   *)
(* host inspects the result and settles a pending exception itself         *)

\* ph_Result r = ph_call0_r_raise(4, "get_value");  ph_call1_r_raise(...);
HostCallNameRRaise ==
    /\ exc = NoExc
    /\ last = NoLast
    /\ \E name \in CallNames, n \in 0..2, reg \in RegInputs, left \in 0..MaxLeft :
         /\ n \in NameArities(name)
         /\ LET argv == IF n = 0 THEN NULL ELSE RegRef(0)
                c == ph_callN_r_raise(VM, reg, n, name, argv, left)
            IN  /\ Commit(c.vm)
                /\ last' = [NoLast EXCEPT
                              !.op = "call_name", !.policy = "r_raise", !.reg = reg,
                              !.name = name, !.argc = n, !.argv = argv,
                              !.tval = IF NameIndex(name) = 0 THEN NilVal
                                       ELSE globals[name],
                              !.args = ArgValues(argv, n),
                              !.ok = c.r.ok, !.val = c.r.val,
                              !.depth0 = Len(stack), !.exc0 = exc]
    /\ UNCHANGED <<scopes, closed, inner, below>>
    /\ UNCHANGED values

\* ph_Result r = ph_call_r_raise(4, fn, argc, argv);
HostCallRefRRaise ==
    /\ exc = NoExc
    /\ last = NoLast
    /\ \E callable \in CallableRefs, argc \in 0..2, reg \in RegInputs,
          left \in 0..MaxLeft :
         /\ argc \in ValueArities(Deref(VM, callable))
         /\ LET argv == IF argc = 0 THEN NULL ELSE RegRef(0)
                c == ph_call_r_raise(VM, reg, callable, argc, argv, left)
            IN  /\ Commit(c.vm)
                /\ last' = [NoLast EXCEPT
                              !.op = "call_ref", !.policy = "r_raise", !.reg = reg,
                              !.argc = argc, !.argv = argv, !.target = callable,
                              !.tval = Deref(VM, callable),
                              !.args = ArgValues(argv, argc),
                              !.ok = c.r.ok, !.val = c.r.val,
                              !.depth0 = Len(stack), !.exc0 = exc]
    /\ UNCHANGED <<scopes, closed, inner, below>>
    /\ UNCHANGED values

\* ph_Result r = ph_callmethod0_r_raise(5, obj, "get");  ph_callmethod1_r_raise(...);
HostCallMethodRRaise ==
    /\ exc = NoExc
    /\ last = NoLast
    /\ \E obj \in RecvRefs, name \in MethodInputs, n \in 0..1, reg \in RegInputs,
          left \in 0..MaxLeft :
         /\ n \in MethodArities(obj, name)
         /\ LET arg0 == IF n = 0 THEN NULL ELSE RegRef(0)
                c == ph_callmethodN_r_raise(VM, reg, n, obj, name, arg0, left)
            IN  /\ Commit(c.vm)
                /\ last' = [NoLast EXCEPT
                              !.op = "call_method", !.policy = "r_raise", !.reg = reg,
                              !.name = name, !.argc = n, !.argv = arg0,
                              !.target = obj, !.tval = Deref(VM, obj),
                              !.args = ArgValues(arg0, n),
                              !.ok = c.r.ok, !.val = c.r.val,
                              !.depth0 = Len(stack), !.exc0 = exc]
    /\ UNCHANGED <<scopes, closed, inner, below>>
    /\ UNCHANGED values

NextRRaise ==
    \/ HostReturn
    \/ HostClearExc
    \/ HostCallNameRRaise
    \/ HostCallRefRRaise
    \/ HostCallMethodRRaise

SpecRRaise == InitCall /\ [][NextRRaise]_vars

---------------------------------------------------------------------------
(* A host that binds globals to temporaries it has just created in         *)
(* register 0, overwrites register 0, and reads the globals back           *)

BoundNames == {"x", "y"}

TmpInts == 1..3

\* ph_setglobal("x", ph_int(1));
HostSetGlobal ==
    /\ last = NoLast
    /\ \E name \in BoundNames, v \in TmpInts :
         LET tmp == ph_int(VM, v)
             vm1 == ph_setglobal(tmp.vm, name, tmp.ret)
         IN  /\ Commit(vm1)
             /\ last' = [NoLast EXCEPT !.op = "setglobal", !.name = name,
                                       !.target = tmp.ret, !.tval = IntVal(v)]
    /\ UNCHANGED <<scopes, closed, inner, below>>
    /\ UNCHANGED values

\* ph_int(v);  ph_int_r(0, v);  a later write to register 0
HostWriteR0 ==
    /\ last = NoLast
    /\ \E v \in TmpInts, stable \in BOOLEAN :
         LET c == IF stable THEN ph_int_r(VM, 0, v, FALSE) ELSE ph_int(VM, v)
         IN  /\ Commit(c.vm)
             /\ last' = [NoLast EXCEPT !.op = "int", !.reg = 0, !.val = c.ret]
    /\ UNCHANGED <<scopes, closed, inner, below>>
    /\ UNCHANGED values

\* py_ItemRef var = ph_getglobal("x");
HostGetGlobal ==
    /\ last = NoLast
    /\ \E name \in BoundNames :
         LET g == ph_getglobal(VM, name)
         IN  /\ Commit(g.vm)
             /\ last' = [NoLast EXCEPT !.op = "getglobal", !.name = name,
                                       !.val = g.ref,
                                       !.tval = Deref(g.vm, g.ref)]
    /\ UNCHANGED <<scopes, closed, inner, below>>
    /\ UNCHANGED values

NextGlobal ==
    \/ HostReturn
    \/ HostSetGlobal
    \/ HostWriteR0
    \/ HostGetGlobal

SpecGlobal == Init /\ [][NextGlobal]_vars

---------------------------------------------------------------------------
(* A C++ host: blocks that construct a ph::Scope, run the interpreter raw  *)
(* and leave the block, which destroys the innermost scope                 *)

\* Deepest nesting of blocks that hold a ph::Scope
MaxBlocks == MaxScopes - 1

\* { ph::Scope scope(policy);
HostScopeCtor ==
    /\ Len(scopes) < MaxBlocks
    /\ \E policy \in ExcPolicy : scopes' = Append(scopes, Scope(VM, policy))
    /\ Commit(VM)
    /\ last' = [NoLast EXCEPT !.op = "scope_ctor"]
    /\ inner' = Append(inner, FALSE)
    /\ below' = Append(below, FALSE)
    /\ closed' = NoScope
    /\ UNCHANGED values

\* }   the block ends and the innermost scope is destroyed
HostScopeDtor ==
    /\ scopes # <<>>
    /\ LET s == scopes[Len(scopes)]
       IN  /\ Commit(Scope_destroy(VM, s))
           /\ last' = [NoLast EXCEPT !.op = "scope_dtor", !.policy = s.policy_,
                                     !.depth0 = Len(stack),
                                     !.entry = s.unwind_point, !.exc0 = exc]
    /\ scopes' = SubSeq(scopes, 1, Len(scopes) - 1)
    /\ inner' = SubSeq(inner, 1, Len(scopes) - 1)
    /\ below' = SubSeq(below, 1, Len(scopes) - 1)
    /\ closed' = NoScope
    /\ UNCHANGED values

\* py_clearexc(nullptr);  after a block whose scope propagated
HostSettle == scopes = <<>> /\ HostClearExc

NextCppScope ==
    \/ HostScopeCtor
    \/ HostPush
    \/ HostPop
    \/ HostExecRaw
    \/ HostSettle
    \/ HostScopeDtor

SpecCppScope == Init /\ [][NextCppScope]_vars

---------------------------------------------------------------------------
(* A C++ host that keeps the result of its last successful ph::call_r and  *)
(* goes on calling.  prev is the reference r1.value() it holds, pval the   *)
(* value it read through it when the call returned.                        *)

CppNames == {"get_value", "double", "fail"}

CppRegs == {4, 5, 8}

\* The host's arguments: Values it keeps in register 0
CppArgs(n) == [k \in 1..n |-> RegRef(0)]

\* auto r = ph::call(name, args...);
HostCppCall ==
    /\ ~HostDead
    /\ exc = NoExc
    /\ \E name \in CppNames, n \in 0..4, left \in 0..MaxLeft :
         \E c \in {call(VM, name, CppArgs(n), left)} :
             /\ Commit(c.vm)
             /\ last' = [NoLast EXCEPT !.op = "cpp_call", !.name = name, !.argc = n,
                                       !.ok = c.r.ok, !.val = c.r.val,
                                       !.depth0 = Len(stack),
                                       !.prev = last.prev, !.pval = last.pval]
    /\ UNCHANGED <<scopes, closed, inner, below>>
    /\ UNCHANGED values

\* auto r1 = ph::call_r(reg, name, args...);
HostCppCallR ==
    /\ ~HostDead
    /\ exc = NoExc
    /\ \E name \in CppNames, n \in 0..4, reg \in CppRegs, left \in 0..MaxLeft :
         \E ndebug \in IF reg \in ValidRegs THEN {FALSE} ELSE BOOLEAN :
         \E c \in {call_r(VM, reg, name, CppArgs(n), left, ndebug)} :
         LET kept == c.r.ok /\ reg \in ValidRegs
         IN  /\ Commit(c.vm)
             /\ last' = [NoLast EXCEPT
                           !.op = "cpp_call_r", !.name = name, !.argc = n, !.reg = reg,
                           !.ok = c.r.ok, !.val = c.r.val, !.aborted = c.aborted,
                           !.depth0 = Len(stack),
                           !.prev = IF kept THEN c.r.val ELSE last.prev,
                           !.pval = IF kept THEN Deref(c.vm, c.r.val) ELSE last.pval]
    /\ UNCHANGED <<scopes, closed, inner, below>>
    /\ UNCHANGED values

NextCppCall ==
    \/ HostCppCall
    \/ HostCppCallR

SpecCppCall == InitCall /\ [][NextCppCall]_vars

---------------------------------------------------------------------------
(* A C++ host that creates, wraps and moves ph::Value objects *)

ValueRegs == {0, 1}

\* Value::integer(v, reg), Value::floating(v, reg), Value::string(v, reg),
\* Value::boolean(v, reg)
ValueFactory(kind, vm, v, reg) ==
    CASE kind = "int" -> Value_integer(vm, v, reg)
      [] kind = "float" -> Value_floating(vm, v, reg)
      [] kind = "str" -> Value_string(vm, v, reg)
      [] OTHER -> Value_boolean(vm, v, reg)

\* a = ph::Value::integer(v, reg);   the temporary is moved into the variable
HostValueFactory ==
    /\ \E x \in ValueVars, kind \in Kinds, reg \in ValueRegs :
         \E v \in KindInputs(kind) :
           LET c == ValueFactory(kind, VM, v, reg)
           IN  /\ Commit(c.vm)
               /\ values' = [values EXCEPT ![x] = Value_move(c.ret).this]
               /\ last' = [NoLast EXCEPT !.op = "value_factory", !.name = x,
                                         !.reg = reg, !.tval = Built(kind, v)]
    /\ UNCHANGED <<scopes, closed, inner, below>>

\* a = ph::Value::wrap(py_getreg(0));  a = ph::Value::wrap(py_retval());
HostValueWrap ==
    /\ \E x \in ValueVars, r \in {py_getreg(0), py_retval} :
         /\ values' = [values EXCEPT ![x] = Value_move(Value_wrap(r)).this]
         /\ last' = [NoLast EXCEPT !.op = "value_wrap", !.name = x, !.target = r]
    /\ Commit(VM)
    /\ UNCHANGED <<scopes, closed, inner, below>>

\* b = std::move(a);   target and reg are what the source held
HostValueMove ==
    /\ \E dst \in ValueVars, src \in ValueVars :
         /\ dst # src
         /\ LET m == Value_move(values[src])
            IN  /\ values' = [values EXCEPT ![dst] = m.this, ![src] = m.other]
                /\ last' = [NoLast EXCEPT !.op = "value_move", !.name = dst,
                                          !.target = values[src].ref_,
                                          !.reg = values[src].reg_]
    /\ Commit(VM)
    /\ UNCHANGED <<scopes, closed, inner, below>>

NextValue ==
    \/ HostValueFactory
    \/ HostValueWrap
    \/ HostValueMove

SpecValue == Init /\ [][NextValue]_vars

---------------------------------------------------------------------------
(* A native function that extracts one argument with a required-argument   *)
(* macro, called by the interpreter with argc arguments                    *)

ArgVals == {IntVal(5), StrVal("hello"), BoolVal(TRUE)}

MaxArgc == 2

ArgLists == UNION {[1..n -> ArgVals] : n \in 0..MaxArgc}

\* What the stack holds after the arguments: a stale cell or a live value
StrayVals == {StaleVal, IntVal(5), StrVal("hello")}

PH_ARG(kind, vm, argc, argv, i, stray) ==
    CASE kind = "int" -> PH_ARG_INT(vm, argc, argv, i, stray)
      [] kind = "float" -> PH_ARG_FLOAT(vm, argc, argv, i, stray)
      [] kind = "str" -> PH_ARG_STR(vm, argc, argv, i, stray)
      [] OTHER -> PH_ARG_BOOL(vm, argc, argv, i, stray)

\* static bool f(int argc, py_StackRef argv) { PH_ARG_INT(i, x); ... }
HostNativeArg ==
    /\ exc = NoExc
    /\ \E kind \in Kinds, argv \in ArgLists, i \in 0..MaxArgc, stray \in StrayVals :
         LET c == PH_ARG(kind, VM, Len(argv), argv, i, stray)
         IN  /\ Commit(c.vm)
             /\ last' = [NoLast EXCEPT !.op = "arg", !.name = kind, !.argc = Len(argv),
                                       !.args = argv, !.reg = i, !.ok = c.goes_on,
                                       !.tval = c.var]
    /\ UNCHANGED <<scopes, closed, inner, below, values>>

NextArg ==
    \/ HostNativeArg
    \/ HostClearExc

SpecArg == Init /\ [][NextArg]_vars

---------------------------------------------------------------------------
(* A host that inspects values with the debug helpers, some of whose       *)
(* reprs raise                                                             *)

\* const char* tp = ph_typename(val);
HostTypename ==
    /\ last = NoLast
    /\ \E val \in ValRefs :
         /\ last' = [NoLast EXCEPT !.op = "typename", !.target = val,
                                   !.name = ph_typename(VM, val), !.ok = TRUE,
                                   !.depth0 = Len(stack), !.exc0 = exc]
    /\ Commit(VM)
    /\ UNCHANGED <<scopes, closed, inner, below, values>>

\* const char* s = ph_repr(val);  on any value
HostReprAny == DoRepr(0..MaxLeft)

NextDebug ==
    \/ HostReturn
    \/ HostInt
    \/ HostTypename
    \/ HostReprAny
    \/ HostPrint

SpecDebug == Init /\ [][NextDebug]_vars

---------------------------------------------------------------------------
(* A host that builds lists of integers in register 0 and iterates over    *)
(* them                                                                    *)

ListInts == {5, 0 - 3, 10}

IntArrays == UNION {[1..n -> ListInts] : n \in 0..MaxLen}

Callbacks == {"sum_callback", "find_negative_callback"}

\* ph_list_from_ints(py_r0(), values, count);
HostListFromInts ==
    /\ last = NoLast
    /\ \E vals \in IntArrays :
         /\ Commit(ph_list_from_ints(VM, py_r0, vals, Len(vals)))
         /\ last' = [NoLast EXCEPT !.op = "list_from_ints", !.argc = Len(vals)]
    /\ UNCHANGED <<scopes, closed, inner, below, values>>

\* bool ok = ph_list_foreach(py_r0(), cb, &ctx);
HostListForeach ==
    /\ last = NoLast
    /\ regs[0].tp = "list"
    /\ \E cb \in Callbacks :
         LET c == ph_list_foreach(VM, py_r0, cb)
         IN  /\ Commit(c.vm)
             /\ last' = [NoLast EXCEPT !.op = "list_foreach", !.name = cb,
                                       !.target = py_r0, !.tval = regs[0],
                                       !.ok = c.ret]
    /\ UNCHANGED <<scopes, closed, inner, below, values>>

NextList ==
    \/ HostReturn
    \/ HostListFromInts
    \/ HostListForeach

SpecList == Init /\ [][NextList]_vars

---------------------------------------------------------------------------
(* A C++ host that keeps an integer Value in every register and passes     *)
(* Values to ph::call in any order                                         *)

\* The integers the host keeps in registers 0..7
RegInts == <<1, 2, 3, 4, 6, 7, 8, 9>>

\* Where the host's arguments live: a register, or the global num outside
\* the register bank
ArgHolders == {RegRef(i) : i \in ValidRegs} \cup {GlobalRef(NameIndex("num"))}

\* The function of k parameters the host calls
NameOfArity(k) ==
    CASE k = 1 -> "double" [] k = 2 -> "add" [] k = 3 -> "sum3" [] OTHER -> "sum4"

\* auto v0 = ph::Value::integer(1, 0); ... auto v7 = ph::Value::integer(9, 7);
RECURSIVE FillRegs(_, _)
FillRegs(vm, reg) ==
    IF reg >= PH_MAX_REG THEN vm
    ELSE FillRegs(Value_integer(vm, RegInts[reg + 1], reg).vm, reg + 1)

RegsFilled == \A i \in ValidRegs : regs[i] = IntVal(RegInts[i + 1])

HostFillRegs ==
    /\ last = NoLast
    /\ ~RegsFilled
    /\ Commit(FillRegs(VM, 0))
    /\ last' = [NoLast EXCEPT !.op = "fill_regs"]
    /\ UNCHANGED <<scopes, closed, inner, below>>
    /\ UNCHANGED values

\* auto result = ph::call(name, a0, ..., ak-1);
HostCppCallArgs ==
    /\ last = NoLast
    /\ RegsFilled
    /\ \E k \in 1..4 :
         \E args \in [1..k -> ArgHolders] :
         \E c \in {call(VM, NameOfArity(k), args, 0)} :
             /\ Commit(c.vm)
             /\ last' = [NoLast EXCEPT !.op = "cpp_call_args",
                                       !.name = NameOfArity(k), !.argc = k,
                                       !.argv = args,
                                       !.args = [j \in 1..k |-> Deref(VM, args[j])],
                                       !.ok = c.r.ok, !.val = c.r.val,
                                       !.depth0 = Len(stack)]
    /\ UNCHANGED <<scopes, closed, inner, below>>
    /\ UNCHANGED values

NextCppArgs ==
    \/ HostReturn
    \/ HostFillRegs
    \/ HostCppCallArgs

SpecCppArgs == Init /\ [][NextCppArgs]_vars

---------------------------------------------------------------------------
(* Claims about the call dispatcher, checked under SpecCall *)


\* The last host call was a dispatcher call that got past register validation
Dispatched == last.op \in CallOps /\ (last.policy = "r" => last.reg \in ValidRegs)

\* What the call's target resolved to when the call was made (NilVal: nothing)
ResolvedCallee ==
    CASE last.op = "call_name" -> last.tval
      [] last.op = "call_ref" -> last.tval
      [] last.op = "call_method" ->
           IF MethodId(last.tval.tp, last.name) = 0 THEN NilVal
           ELSE MethodVal(MethodId(last.tval.tp, last.name))
      [] OTHER -> NilVal

CalleeSelf == IF last.op = "call_method" THEN last.tval ELSE NilVal

\* What the callee does with the arguments the host supplied
CalleeOutcome == Invoke(ResolvedCallee, CalleeSelf, last.args)

Invocations == SelectSeq(log, LAMBDA e : e[1] = "invoke")

\* C5: a call by name, by reference or by method whose target resolves and
\* whose callee returns normally invokes the callee exactly once with the
\* supplied arguments, returns ok = true, and val reads the callee's return
\* value; when the target does not resolve no callee is invoked.
C5_CallInvokesOnce ==
    Dispatched =>
        /\ (IsCallable(ResolvedCallee) /\ CalleeOutcome.ok) =>
             /\ Invocations = <<<<"invoke", ResolvedCallee, CalleeSelf, last.args>>>>
             /\ last.ok
             /\ last.val # NULL
             /\ Deref(VM, last.val) = CalleeOutcome.ret
        /\ ~IsCallable(ResolvedCallee) => Invocations = <<>>

C5_Witness ==
    /\ last.op = "call_method"
    /\ last.policy = "base"
    /\ last.name = "add"
    /\ last.args = <<IntVal(10)>>
    /\ last.ok
    /\ Deref(VM, last.val) = IntVal(15)
    /\ Len(Invocations) = 1

\* C6: calling a global name that is not defined returns ok = false and
\* val = NULL; the base and _r variants leave no error pending; the _raise
\* variants leave a NameError pending, and it stays pending until the host
\* clears it.
NameNotDefined == last.op = "call_name" /\ last.tval = NilVal

C6_UndefinedName ==
    /\ [](NameNotDefined =>
            /\ ~last.ok
            /\ last.val = NULL
            /\ last.policy \in {"base", "r"} => exc = NoExc
            /\ last.policy = "raise" => exc = Exc("NameError", NameErrorMsg(last.name)))
    /\ [][(exc.tp = "NameError" /\ exc' # exc) => last'.op = "clearexc"]_vars

C6_Witness ==
    /\ NameNotDefined
    /\ last.policy = "raise"
    /\ last.argc = 2
    /\ ~last.ok
    /\ py_matchexc(VM, "NameError")

\* C7: calling a method the receiver does not have returns ok = false and
\* leaves the stack depth as it was before the call; the _raise variants
\* leave an AttributeError pending, the clearing variants none.
MethodNotFound == last.op = "call_method" /\ MethodId(last.tval.tp, last.name) = 0

C7_UndefinedMethod ==
    MethodNotFound =>
        /\ ~last.ok
        /\ Len(stack) = last.depth0
        /\ last.policy = "raise" => py_matchexc(VM, "AttributeError")
        /\ last.policy \in {"base", "r"} => exc = NoExc

C7_Witness ==
    /\ MethodNotFound
    /\ last.policy = "r"
    /\ last.reg = 5
    /\ last.argc = 1
    /\ last.depth0 = 1
    /\ Len(stack) = 1
    /\ ~last.ok

\* C8: when the callee raises, every entry point returns ok = false; the
\* base and _r variants leave no error pending; the _raise variants leave
\* the callee's exception pending, category unchanged.
CalleeRaises == Dispatched /\ IsCallable(ResolvedCallee) /\ ~CalleeOutcome.ok

C8_CalleeRaises ==
    CalleeRaises =>
        /\ ~last.ok
        /\ last.policy \in {"base", "r"} => exc = NoExc
        /\ last.policy = "raise" => exc = CalleeOutcome.exc

C8_Witness ==
    /\ CalleeRaises
    /\ last.op = "call_ref"
    /\ last.policy = "raise"
    /\ ~last.ok
    /\ py_matchexc(VM, "ValueError")

\* C9: a _r call given a register index outside [0, 8) returns ok = false
\* and val = NULL and performs no interpreter operation: nothing is looked
\* up, invoked or printed, and the stack, every register, the result cell
\* and the pending-error cell are unchanged.
C9_InvalidRegisterIsNoOp ==
    [][(last'.op \in CallOps /\ last'.policy = "r" /\ last'.reg \notin ValidRegs) =>
         /\ ~last'.ok
         /\ last'.val = NULL
         /\ log' = <<>>
         /\ UNCHANGED <<stack, regs, retval, exc, globals>>]_vars

C9_Witness ==
    /\ last.op = "call_name"
    /\ last.policy = "r"
    /\ last.reg = 8
    /\ last.name = "double"
    /\ ~last.ok
    /\ log = <<>>

\* C10: a successful _r call into register j leaves every other register
\* reading what it read before and register j reading the call's result,
\* so results in distinct registers coexist.
C10_StableResultsCoexist ==
    [][(last'.op \in CallOps /\ last'.policy = "r" /\ last'.ok) =>
         /\ last'.val = RegRef(last'.reg)
         /\ \A i \in ValidRegs : i # last'.reg => regs'[i] = regs[i]
         /\ regs'[last'.reg] = Invoke(
                IF last'.op = "call_method"
                THEN MethodVal(MethodId(last'.tval.tp, last'.name)) ELSE last'.tval,
                IF last'.op = "call_method" THEN last'.tval ELSE NilVal,
                last'.args).ret]_vars

C10_Witness ==
    /\ last.op = "call_name"
    /\ last.policy = "r"
    /\ last.name = "add_ten"
    /\ last.reg = 5
    /\ last.argv = RegRef(4)
    /\ last.ok
    /\ regs[4] = IntVal(10)
    /\ regs[5] = IntVal(20)

\* C11: a _r call that fails (the callee raises, the global name is not
\* found, or the method is not found) leaves the target register holding
\* the value it held before the call.
C11_FailedCallKeepsRegister ==
    [][(last'.op \in CallOps /\ last'.policy = "r" /\ last'.reg \in ValidRegs
          /\ ~last'.ok)
         => regs'[last'.reg] = regs[last'.reg]]_vars

C11_Witness ==
    /\ last.op = "call_ref"
    /\ last.policy = "r"
    /\ last.reg = 4
    /\ last.tval = FuncVal(6)
    /\ ~last.ok
    /\ regs[4] = IntVal(10)
    /\ retval = IntVal(42)

---------------------------------------------------------------------------
(* Claims about the result of a call, checked under SpecResult *)

\* C12: for every entry point and outcome, ok = false implies val = NULL;
\* ok = true implies val is py_retval() for the base and _raise variants
\* and py_getreg(reg) for the _r variants, for every reg in 0..7.
C12_ResultValue ==
    last.op \in CallOps =>
        /\ ~last.ok => last.val = NULL
        /\ (last.ok /\ last.policy \in {"base", "raise"}) => last.val = py_retval
        /\ (last.ok /\ last.policy = "r") =>
             (last.reg \in ValidRegs /\ last.val = py_getreg(last.reg))

C12_Witness ==
    /\ last.op = "call_method"
    /\ last.policy = "r"
    /\ last.reg = 7
    /\ last.ok
    /\ last.val = RegRef(7)
    /\ regs[7] = IntVal(5)
    /\ regs[0] = IntVal(42)

\* C15: the result of a base or _raise call aliases the one shared result
\* cell: for two consecutive successful volatile calls r1 then r2, r1.val
\* and r2.val are the same reference and, after the second call, both read
\* the second callee's return value.
C15_VolatileResultAliases ==
    (last.op \in CallOps /\ last.prev # NULL /\ last.ok) =>
        /\ last.prev = last.val
        /\ Deref(VM, last.prev) = CalleeOutcome.ret
        /\ Deref(VM, last.val) = CalleeOutcome.ret

C15_Witness ==
    /\ last.op = "call_name"
    /\ last.prev # NULL
    /\ last.ok
    /\ last.pval = IntVal(5)
    /\ last.name = "get_value"
    /\ Deref(VM, last.prev) = IntVal(42)
    /\ Deref(VM, last.val) = IntVal(42)


---------------------------------------------------------------------------
(* Claims about the value constructors, checked under SpecCreate *)

CreateOps == {"create", "create_r"}

\* C13: writing register i with ph_int_r .. ph_bool_r (0 <= i < 8), or
\* register 0 with ph_int .. ph_bool, never changes the value readable at
\* any register j # i and changes neither the stack depth nor the
\* pending-error cell; the returned reference is register i.
C13_RegisterIsolation ==
    [][(last'.op \in CreateOps /\ last'.reg \in ValidRegs) =>
         /\ ~last'.aborted
         /\ last'.val = py_getreg(last'.reg)
         /\ regs'[last'.reg] = last'.tval
         /\ \A j \in ValidRegs : j # last'.reg => regs'[j] = regs[j]
         /\ Len(stack') = Len(stack)
         /\ exc' = exc]_vars

C13_Witness ==
    /\ last.op = "create_r"
    /\ last.name = "str"
    /\ last.reg = 7
    /\ last.val = RegRef(7)
    /\ regs[7] = StrVal("hello")
    /\ regs[0] = IntVal(1)
    /\ stack = <<IntVal(5)>>
    /\ exc # NoExc

\* C14: two references obtained from the same register at different times
\* (a = ph_int(1); b = ph_int(2), or two ph_int_r(k, ...) with the same k)
\* are the same reference, and after the second write both read the second
\* value.
C14_SameRegisterAliases ==
    [][(last.op \in CreateOps /\ last'.op \in CreateOps
          /\ last.reg \in ValidRegs /\ last'.reg = last.reg) =>
         /\ last'.val = last.val
         /\ Deref([regs |-> regs', retval |-> retval', globals |-> globals'],
                  last.val) = last'.tval
         /\ Deref([regs |-> regs', retval |-> retval', globals |-> globals'],
                  last'.val) = last'.tval]_vars

C14_Witness ==
    /\ last.op = "create"
    /\ last.pval = IntVal(1)
    /\ last.tval = IntVal(2)
    /\ last.val = py_r0
    /\ Deref(VM, last.val) = IntVal(2)

\* C16 as stated: ph_int_r, ph_float_r, ph_str_r and ph_bool_r called with a
\* register index outside [0, 8) return NULL, write no register or other
\* memory, and do not abort the host process.
C16_Original ==
    (last.op = "create_r" /\ last.reg \notin ValidRegs) =>
        /\ last.val = NULL
        /\ ~last.aborted
        /\ log = <<>>

---------------------------------------------------------------------------
(* Claims about closing a guard twice, checked under SpecReclose *)

\* The second close changed neither the guard's has_exception flag, nor the
\* stack, nor the pending-error cell.
RecloseIsNoOp ==
    /\ ph_scope_failed(closed') = ph_scope_failed(closed)
    /\ stack' = stack
    /\ exc' = exc

\* C19 as stated: once ph_scope_end, ph_scope_end_print or ph_scope_end_raise
\* has been applied to a guard, any further close call on that guard is a
\* no-op under every policy: it changes neither the guard's has_exception
\* flag, nor the stack depth, nor the pending-error cell.
C19_Original == [][last'.op = "scope_end_again" => RecloseIsNoOp]_vars

\* C19 amended: a further close runs the close again.  It is a no-op exactly
\* when the stack is at or below the guard's entry depth and either no error
\* is pending, or the close is ph_scope_end_raise on a guard already marked
\* failed.  Otherwise it shrinks a stack that grew above the entry depth,
\* and with an error pending a clearing close clears it, ph_scope_end_print
\* prints it, and every close marks the guard failed and returns false.
C19_RecloseRunsAgain ==
    [][last'.op = "scope_end_again" =>
         /\ RecloseIsNoOp <=>
              /\ Len(stack) <= closed.unwind_point
              /\ \/ exc = NoExc
                 \/ last'.policy = "raise" /\ ph_scope_failed(closed)
         /\ Len(stack) > closed.unwind_point => Len(stack') = closed.unwind_point
         /\ exc # NoExc =>
              /\ ~last'.ok
              /\ ph_scope_failed(closed')
              /\ exc' = IF last'.policy = "raise" THEN exc ELSE NoExc
              /\ last'.policy = "print" => log' = <<<<"py_printexc", exc>>>>
         /\ exc = NoExc => (last'.ok /\ exc' = NoExc /\ closed'.has_exception = closed.has_exception)]_vars

\* ph_scope_end_raise left the error pending; a second close with
\* ph_scope_end cleared it.
C19_Witness ==
    /\ last.op = "scope_end_again"
    /\ last.policy = "silent"
    /\ last.exc0.tp = "ZeroDivisionError"
    /\ ~last.ok
    /\ exc = NoExc
    /\ ph_scope_failed(closed)
    /\ scopes = <<>>

---------------------------------------------------------------------------
(* Claims about the non-propagating operations, checked under SpecQuiet *)

\* C20: starting with no pending error, after any finite sequence of
\* operations none of which is a propagate (_raise) variant -- ph_exec,
\* ph_exec_in, ph_eval, ph_eval_in, the base and _r calls, ph_print, ph_repr,
\* ph_is_truthy, and guards closed with ph_scope_end or ph_scope_end_print --
\* no error is pending.  (Inside a guard that is still open the raw run's
\* error is pending until the close.)
C20_NoErrorPending == scopes = <<>> => exc = NoExc

\* ph_exec("1 / 0") has returned false: the error was printed and cleared.
C20_Witness ==
    /\ last.op = "exec"
    /\ last.name = "1 / 0"
    /\ ~last.ok
    /\ \E k \in DOMAIN log : log[k] = <<"py_printexc", SourceOutcome("1 / 0")>>
    /\ exc = NoExc
    /\ scopes = <<>>
    /\ Len(stack) = last.depth0

---------------------------------------------------------------------------
(* Claims about the execution helpers, checked under SpecExec *)

\* C21: ph_exec, ph_exec_in, ph_eval and ph_eval_in return true iff the code
\* raised no exception and, on exception, print it and leave no error
\* pending; the _raise forms return true iff no exception was raised and,
\* on exception, leave that exception pending; in every case the stack
\* depth after the call equals the depth before it.
C21_ExecContract ==
    /\ last.op \in QuietExecs =>
         /\ last.ok <=> SourceOutcome(last.name) = NoExc
         /\ exc = NoExc
         /\ ~last.ok => \E k \in DOMAIN log :
                          log[k] = <<"py_printexc", SourceOutcome(last.name)>>
         /\ Len(stack) = last.depth0
    /\ last.op \in RaiseExecs =>
         /\ last.ok <=> SourceOutcome(last.name) = NoExc
         /\ exc = SourceOutcome(last.name)
         /\ Len(stack) = last.depth0

C21_Witness ==
    /\ last.op = "eval_raise"
    /\ last.name = "undefined_var"
    /\ ~last.ok
    /\ exc.tp = "NameError"
    /\ last.depth0 = 2
    /\ Len(stack) = 2

---------------------------------------------------------------------------
(* Claims about the register-backed propagating calls, checked under       *)
(* SpecRRaise                                                              *)

StableRaise == last.op \in CallOps /\ last.policy = "r_raise" /\ last.reg \in ValidRegs

---------------------------------------------------------------------------
(* Claims about globals bound to temporaries, checked under SpecGlobal *)

\* C23: ph_setglobal(name, ref) stores the value read through ref when it is
\* called: the name is bound to that value, a later write to register 0 (by
\* a ph_int, or a ph_setglobal of another name with a new temporary) leaves
\* the binding as it is, and ph_getglobal of a bound name is non-NULL and
\* reads the bound value.
C23_SetGlobalCopies ==
    /\ [][last'.op = "setglobal" =>
            /\ globals'[last'.name] = last'.tval
            /\ \A n \in BoundNames \ {last'.name} : globals'[n] = globals[n]]_vars
    /\ [][last'.op # "setglobal" => globals' = globals]_vars
    /\ [](last.op = "getglobal" /\ globals[last.name] # NilVal =>
            /\ last.val # NULL
            /\ Deref(VM, last.val) = globals[last.name])

\* x was bound to 1 and then y to 2 through register 0, and x is read back
C23_Witness ==
    /\ last.op = "getglobal"
    /\ last.name = "x"
    /\ last.val # NULL
    /\ last.tval = IntVal(1)
    /\ globals["y"] = IntVal(2)
    /\ regs[0] = IntVal(2)

---------------------------------------------------------------------------
(* Claims about ph::Scope, checked under SpecCppScope *)

Destroyed(policy) == last.op = "scope_dtor" /\ last.policy = policy

\* C24 as stated: when a ph::Scope is destroyed the stack depth equals the
\* depth at construction under every policy; under Print and Silent no
\* error is pending afterwards; under Raise an error pending at destruction
\* remains pending.
C24_Original ==
    last.op = "scope_dtor" =>
        /\ Len(stack) = last.entry
        /\ last.policy \in {"Print", "Silent"} => exc = NoExc
        /\ last.policy = "Raise" => exc = last.exc0

\* C24 amended: the depth at construction is restored whenever the block
\* left the stack at or above it, or an error was cleared by the destructor;
\* a block that popped below it and ends with nothing to clear stays at the
\* depth the block left.
C24_ScopeDestroyed ==
    last.op = "scope_dtor" =>
        /\ last.depth0 >= last.entry => Len(stack) = last.entry
        /\ (last.exc0 # NoExc /\ last.policy # "Raise") => Len(stack) = last.entry
        /\ (last.depth0 < last.entry /\ (last.exc0 = NoExc \/ last.policy = "Raise"))
             => Len(stack) = last.depth0
        /\ last.policy \in {"Print", "Silent"} => exc = NoExc
        /\ last.policy = "Raise" => exc = last.exc0

C24_Witness ==
    /\ Destroyed("Raise")
    /\ last.exc0.tp = "ZeroDivisionError"
    /\ last.depth0 = last.entry + 2
    /\ Len(stack) = last.entry
    /\ exc = last.exc0

---------------------------------------------------------------------------
(* Claims about ph::call and ph::call_r, checked under SpecCppCall *)

\* C25 as stated: after r1 = ph::call_r(i, ...) succeeds, the value read
\* through r1.value() is unchanged by every later ph::call and every later
\* ph::call_r(j, ...) with j # i, whatever the later call's argument count.
C25_Original ==
    (last.op \in {"cpp_call", "cpp_call_r"} /\ last.prev # NULL)
        => Deref(VM, last.prev) = last.pval

\* C26 as stated: ph::call_r with reg outside [0, 8) does not look the
\* target up, does not invoke the callee and changes no register, stack or
\* pending-error state.
C26_Original ==
    [][(last'.op = "cpp_call_r" /\ last'.reg \notin ValidRegs) =>
          /\ log' = <<>>
          /\ ~last'.aborted
          /\ regs' = regs
          /\ retval' = retval
          /\ stack' = stack
          /\ exc' = exc]_vars

---------------------------------------------------------------------------
(* Claims about ph::Value, checked under SpecValue *)

\* C27 as stated: no sequence of factory calls, wrap calls and moves leaves
\* two valid ph::Value objects that refer to the same register; after
\* b = std::move(a), b holds a's former reference and a is not valid.
C27_Original ==
    /\ \A x \in ValueVars, y \in ValueVars :
         (x # y /\ valid(values[x]) /\ valid(values[y]) /\ values[x].ref_.k = "reg")
             => values[x].ref_ # values[y].ref_
    /\ last.op = "value_move" =>
         /\ values[last.name] = Value(last.target, last.reg)
         /\ \A src \in ValueVars \ {last.name} : ~valid(values[src])

---------------------------------------------------------------------------
(* Claims about the argument macros, checked under SpecArg *)

\* C28 as stated: PH_ARG_INT, PH_ARG_FLOAT, PH_ARG_STR and PH_ARG_BOOL check
\* the index against argc before they access the argument: with i >= argc
\* they raise TypeError and make the native function return false without
\* reading argument i.
C28_Original ==
    (last.op = "arg" /\ last.reg >= last.argc) =>
        /\ ~last.ok
        /\ py_matchexc(VM, "TypeError")
        /\ SelectSeq(log, LAMBDA e : e[1] = "py_arg") = <<>>

---------------------------------------------------------------------------
(* Claims about the debug helpers, checked under SpecDebug *)

DebugOps == {"typename", "repr", "print"}

ReprFailed == last.op = "repr" /\ ~last.ok

---------------------------------------------------------------------------
(* Claims about the list helpers, checked under SpecList *)

\* The indices (from 1) of the items for which the callback returns false
Stops(cb, items) == {k \in 1..Len(items) : ~CallbackReturns(cb, items[k])}

\* How many items are visited: up to and including the first that stops
Visited(cb, items) ==
    IF Stops(cb, items) = {} THEN Len(items)
    ELSE CHOOSE k \in Stops(cb, items) : \A j \in Stops(cb, items) : k <= j

\* C30: ph_list_foreach invokes the callback on items 0, 1, ... in ascending
\* order; it stops at the first callback that returns false, visits no
\* later item and returns false; if every callback returns true (also for
\* an empty list, with no callback at all) it returns true after exactly
\* len callbacks.
C30_ForeachOrder ==
    last.op = "list_foreach" =>
        LET items == last.tval.v
            n == Visited(last.name, items)
        IN  /\ log = [k \in 1..n |-> <<"cb", k - 1, items[k]>>]
            /\ last.ok <=> Stops(last.name, items) = {}
            /\ last.ok => Len(log) = Len(items)

C30_Witness ==
    /\ last.op = "list_foreach"
    /\ last.name = "find_negative_callback"
    /\ last.tval = ListVal(<<IntVal(5), IntVal(0 - 3), IntVal(10)>>)
    /\ ~last.ok
    /\ Len(log) = 2

---------------------------------------------------------------------------
(* Claims about the stack across a dispatcher call, checked under SpecCall *)

\* C31: after any call-dispatcher entry point returns (success, callee
\* exception, name not found, method not found or invalid register, under
\* either exception policy, method calls that pushed receiver, method and
\* argument included) the stack depth equals the depth before the call.
C31_CallRestoresDepth ==
    last.op \in CallOps => Len(stack) = last.depth0

\* A propagating method call that pushed the receiver, the method and one
\* argument above one value the caller had on the stack, and ran the method
C31_Witness ==
    /\ last.op = "call_method"
    /\ last.policy = "raise"
    /\ last.argc = 1
    /\ last.ok
    /\ \E k \in 1..Len(log) : log[k][1] = "invoke" /\ Len(log[k][4]) = 1
    /\ last.depth0 = 1
    /\ Len(stack) = 1

---------------------------------------------------------------------------
(* Claims about the arguments of ph::call, checked under SpecCppArgs *)

\* The argument lists the interpreter invoked a callee with during the call
InvokedWith == [k \in 1..Len(SelectSeq(log, LAMBDA e : e[1] = "invoke")) |->
                   SelectSeq(log, LAMBDA e : e[1] = "invoke")[k][4]]

\* C32 as stated: ph::call(name, a0, ..., ak-1) for k = 1..4 invokes the
\* callee with exactly the values a0..ak-1 had at call entry, in argument
\* order, for arguments held in any of the registers 0..7 (in any order) or
\* outside the register bank.
C32_Original ==
    last.op = "cpp_call_args" => InvokedWith = <<last.args>>

---------------------------------------------------------------------------
(* Claims about calls without arguments, checked under SpecCall *)

\* The interpreter calls py_call(f, argc, argv) the dispatcher made
PyCalls == SelectSeq(log, LAMBDA e : e[1] = "py_call")

ZeroArgCall == last.op \in CallOps /\ last.argc = 0 /\ PyCalls # <<>>

\* C33 as stated: whenever a dispatcher invokes the interpreter with
\* argument count 0, the argument base it passes is null, whatever argv the
\* host supplied.
C33_Original ==
    ZeroArgCall => \A k \in 1..Len(PyCalls) : PyCalls[k][4] = NULL

\* C33: with argument count 0, ph_call0 and its variants pass a null
\* argument base; ph_call, ph_call_raise and ph_call_r pass on the argv the
\* host supplied, null or not; in both cases the callee receives no
\* argument.
C33_ZeroArgBase ==
    ZeroArgCall =>
        /\ Len(PyCalls) = 1
        /\ PyCalls[1][3] = 0
        /\ last.op = "call_name" => PyCalls[1][4] = NULL
        /\ last.op = "call_ref" => PyCalls[1][4] = last.argv
        /\ \A k \in 1..Len(log) : log[k][1] = "invoke" => log[k][4] = <<>>

\* ph_call(fn, 0, py_r0()) on a function without parameters
C33_Witness ==
    /\ ZeroArgCall
    /\ last.op = "call_ref"
    /\ last.policy = "base"
    /\ last.argv = RegRef(0)
    /\ PyCalls[1][4] = RegRef(0)
    /\ IsCallable(last.tval)
    /\ \E k \in 1..Len(log) : log[k][1] = "invoke" /\ log[k][4] = <<>>

---------------------------------------------------------------------------
(* Claims about the scope guard, checked under SpecScope *)

ClosedBy(policy) == last.op = "scope_end" /\ last.policy = policy

\* C1: a guarded region that ends with no pending error and n >= 0 net
\* pushes: every close variant returns true and leaves the stack at the
\* depth ph_scope_begin captured.
C1_StackRestoredOnSuccess ==
    (last.op = "scope_end" /\ last.exc0 = NoExc /\ last.depth0 >= last.entry)
        => (last.ok /\ Len(stack) = last.entry)

C1_Witness ==
    /\ ClosedBy("raise")
    /\ last.exc0 = NoExc
    /\ last.depth0 = last.entry + 2
    /\ last.ok
    /\ Len(stack) = last.entry

\* C34: ph_scope_end_print emits the diagnostic for the pending error
\* exactly once, before the error is cleared, and only when an error is
\* pending at close; ph_scope_end and ph_scope_end_raise never emit a
\* diagnostic.
C34_DiagnosticOnce ==
    last.op = "scope_end" =>
        log = IF last.policy = "print" /\ last.exc0 # NoExc
              THEN << <<"py_printexc", last.exc0>> >>
              ELSE <<>>

C34_Witness ==
    /\ ClosedBy("print")
    /\ last.exc0 # NoExc
    /\ log = << <<"py_printexc", last.exc0>> >>
    /\ exc = NoExc

\* C35: ph_scope_failed(scope) is false from ph_scope_begin until the guard
\* is closed, and after the close it is true iff the close returned false,
\* i.e. iff an error was pending at close time, under all three close
\* variants.
C35_FailedFlag ==
    /\ \A k \in 1..Len(scopes) : ~ph_scope_failed(scopes[k])
    /\ last.op = "scope_end" =>
         /\ ph_scope_failed(closed) <=> ~last.ok
         /\ ~last.ok <=> last.exc0 # NoExc

\* An inner guard closed by ph_scope_end_raise with an error pending, while
\* the guard around it is still open
C35_Witness ==
    /\ ClosedBy("raise")
    /\ last.exc0 # NoExc
    /\ ph_scope_failed(closed)
    /\ ~last.ok
    /\ Len(scopes) = 1
    /\ ~ph_scope_failed(scopes[1])

\* C2: with an error pending at close, ph_scope_end and ph_scope_end_print
\* return false, leave no pending error and leave the stack at the depth
\* captured at ph_scope_begin.
C2_ClearingCloseOnError ==
    (last.op = "scope_end" /\ last.policy \in {"silent", "print"} /\ last.exc0 # NoExc)
        => (~last.ok /\ exc = NoExc /\ Len(stack) = last.entry)

C2_Witness ==
    /\ ClosedBy("print")
    /\ last.exc0.tp = "ZeroDivisionError"
    /\ last.depth0 > last.entry
    /\ ~last.ok
    /\ exc = NoExc
    /\ Len(stack) = last.entry

\* C3 as stated: with an error pending at close, ph_scope_end_raise returns
\* false, restores the stack depth to the captured depth and leaves exactly
\* that error pending; with none pending it returns true.
C3_Original ==
    ClosedBy("raise") =>
        /\ last.exc0 # NoExc => (~last.ok /\ Len(stack) = last.entry /\ exc = last.exc0)
        /\ last.exc0 = NoExc => last.ok

\* C3 amended: the stack depth is restored whenever the region left the
\* stack at or above the captured depth; values popped below it are not
\* put back.
C3_PropagatingClose ==
    ClosedBy("raise") =>
        /\ last.exc0 # NoExc =>
             /\ ~last.ok
             /\ exc = last.exc0
             /\ last.depth0 >= last.entry => Len(stack) = last.entry
             /\ last.depth0 < last.entry => Len(stack) = last.depth0
        /\ last.exc0 = NoExc => last.ok

C3_Witness ==
    /\ ClosedBy("raise")
    /\ last.exc0.tp = "NameError"
    /\ last.depth0 > last.entry
    /\ ~last.ok
    /\ exc = last.exc0
    /\ Len(stack) = last.entry

\* C4 as stated: after a close, under every policy and whatever the region
\* pushed and popped, the stack depth equals the captured depth.
C4_Original == last.op = "scope_end" => Len(stack) = last.entry

\* C4 amended: after a close, under every policy and whether or not an
\* error was pending, the stack depth equals the captured depth for every
\* region that left the stack at or above that depth.
C4_DepthRestored ==
    (last.op = "scope_end" /\ last.depth0 >= last.entry) => Len(stack) = last.entry

C4_Witness ==
    /\ ClosedBy("silent")
    /\ last.exc0 # NoExc
    /\ last.depth0 = last.entry + 1
    /\ Len(scopes) = 1
    /\ Len(stack) = last.entry

\* C17 as stated: when an inner guard closes with a clearing policy while an
\* error is pending, the error is cleared and the enclosing guard is
\* unaffected: if the outer region raises no further error, closing the
\* outer guard returns true, with no error pending and the stack at the
\* outer guard's entry depth.
C17_Original ==
    /\ (last.op = "scope_end" /\ last.policy \in {"silent", "print"}
          /\ last.exc0 # NoExc /\ scopes # <<>>)
         => (exc = NoExc /\ ~ph_scope_failed(scopes[Len(scopes)]))
    /\ (last.op = "scope_end" /\ last.inner /\ last.exc0 = NoExc)
         => (last.ok /\ exc = NoExc /\ Len(stack) = last.entry)

\* C17 amended: the same, for an outer region that leaves the stack at or
\* above the outer guard's entry depth; an outer region that popped below it
\* still closes with true and no error pending, at the depth it left.
C17_InnerFailureContained ==
    /\ (last.op = "scope_end" /\ last.policy \in {"silent", "print"}
          /\ last.exc0 # NoExc /\ scopes # <<>>)
         => (exc = NoExc /\ ~ph_scope_failed(scopes[Len(scopes)]))
    /\ (last.op = "scope_end" /\ last.inner /\ last.exc0 = NoExc)
         => /\ last.ok
            /\ exc = NoExc
            /\ last.depth0 >= last.entry => Len(stack) = last.entry
            /\ last.depth0 < last.entry => Len(stack) = last.depth0

C17_Witness ==
    /\ ClosedBy("silent")
    /\ last.inner
    /\ last.exc0 = NoExc
    /\ last.depth0 > last.entry
    /\ last.ok
    /\ exc = NoExc
    /\ Len(stack) = last.entry
    /\ scopes = <<>>
    /\ ph_scope_failed(closed) = FALSE

\* Guards open before and after a step (the ones a step neither began nor closed)
StillOpen == {k \in DOMAIN scopes : k \in DOMAIN scopes' /\ scopes'[k] = scopes[k]}

\* C18 as stated: with properly nested guards, closing the inner guard
\* restores the stack to the inner guard's entry depth, the values the outer
\* region pushed before the inner guard began stay on the stack, and closing
\* the outer guard afterwards restores the stack to the outer guard's entry
\* depth.
C18_Original ==
    [][last'.op = "scope_end" =>
         /\ Len(stack') = scopes[Len(scopes)].unwind_point
         /\ \A i \in 1..Len(stack') : i <= Len(stack) => stack'[i] = stack[i]]_vars

\* C18 amended: the same for regions that never pop below their guard's
\* entry depth.  While a guard is open and its region has not popped below
\* the entry depth, no step (a nested close included) changes the values
\* under the entry depth; closing it leaves exactly those values.
C18_NestedUnwind ==
    [][/\ \A k \in StillOpen :
            ~below'[k] =>
               /\ Len(stack) >= scopes[k].unwind_point
               /\ Len(stack') >= scopes[k].unwind_point
               /\ SubSeq(stack', 1, scopes[k].unwind_point)
                    = SubSeq(stack, 1, scopes[k].unwind_point)
       /\ (last'.op = "scope_end" /\ ~below[Len(scopes)]) =>
            /\ Len(stack) >= scopes[Len(scopes)].unwind_point
            /\ stack' = SubSeq(stack, 1, scopes[Len(scopes)].unwind_point)]_vars

\* The inner guard has just closed: the outer one is still open and the
\* value the outer region pushed before the inner guard began is in place.
C18_Witness ==
    /\ ClosedBy("silent")
    /\ ~last.below
    /\ last.ok
    /\ last.entry = 2
    /\ last.depth0 = 3
    /\ Len(scopes) = 1
    /\ scopes[1].unwind_point = 1
    /\ ~below[1]
    /\ stack = <<IntVal(5), IntVal(5)>>

=============================================================================
